---- MODULE Spec2Model ----
(***************************************************************************)
(* A model of the chess engine core of jameslinimk/chess-ai: the Board     *)
(* (src/src/board.rs, src/src/board_extras.rs), the per-piece move and     *)
(* attack generators (src/src/pieces/*.rs) and the FEN reader and writer.  *)
(*                                                                         *)
(* A Loc is the pair <<x, y>>: loc[1] is the Rust field .0 (file) and      *)
(* loc[2] is the Rust field .1 (row, 0 = Black's back rank).               *)
(* A FEN string is a sequence of one-character strings.                    *)
(***************************************************************************)
EXTENDS Integers, Sequences, FiniteSets, TLC

(* Free play explores every legal-list move up to this many half-moves.    *)
MaxPly == 2

(* A shift moves a Loc by at most this many files and ranks (the knight's   *)
(* step is the longest one the pieces make).                               *)
MaxOffset == 2

(* The search is followed this many half-moves below its root (minimax is  *)
(* called with depth 4).                                                   *)
MaxDepth == 2

White == "White"
Black == "Black"

(* Option<Piece>::None: a record, so that it compares with any Piece.      *)
None == [name |-> "None", color |-> "None", pos |-> <<8, 8>>]

(* Option<(Loc, ChessColor)>::None                                         *)
NoEnPassent == <<>>

(* Option<Loc>::None                                                       *)
NoLoc == <<>>

Piece(name, color, pos) == [name |-> name, color |-> color, pos |-> pos]

Locs == (0..7) \X (0..7)

(* board_extras.rs ENUMERATES: the order of raw.iter().flatten()           *)
ENUMERATES == [i \in 1..64 |-> <<(i - 1) % 8, (i - 1) \div 8>>]

loc(x, y) == <<x, y>>

abs_diff(a, b) == IF a >= b THEN a - b ELSE b - a

clamp0(n) == IF n < 0 THEN 0 ELSE n

color_ternary(cond, if_white, if_black) == IF cond = White THEN if_white ELSE if_black

(* The same shift with the flag never raised.                              *)
copy_move_i32_unflagged(l, x_diff, y_diff) ==
    <<loc(clamp0(l[1] + x_diff), clamp0(l[2] + y_diff)), FALSE>>

(* Loc::copy_move_i32: <<new Loc, out>>; a negative coordinate is clamped  *)
(* to 0 and reported by the flag.                                          *)
copy_move_i32(l, x_diff, y_diff) ==
    LET new_x == l[1] + x_diff
        new_y == l[2] + y_diff
    IN  IF new_x < 0 \/ new_y < 0
        THEN <<loc(clamp0(new_x), clamp0(new_y)), TRUE>>
        ELSE <<loc(new_x, new_y), FALSE>>

(* Loc::move_i32: <<new Loc, success>>                                     *)
move_i32(l, x_diff, y_diff) ==
    LET new_x == l[1] + x_diff
        new_y == l[2] + y_diff
    IN  IF new_x < 0 \/ new_y < 0
        THEN <<loc(clamp0(new_x), clamp0(new_y)), FALSE>>
        ELSE <<loc(new_x, new_y), TRUE>>

valid_pos(location) == ~(location[1] >= 8 \/ location[2] >= 8)

(* Board::get and Board::set on the raw grid (raw[y][x] in the source).    *)
get(board, l) == board.raw[l]

set(board, l, value) == [board EXCEPT !.raw[l] = value]

(* The elements of a sequence, and sequence membership (Vec::contains).    *)
Range(s) == {s[i] : i \in 1..Len(s)}

Contains(s, e) == \E i \in 1..Len(s) : s[i] = e

(* The concatenation ss[lo] \o ... \o ss[hi] of a sequence of sequences:   *)
(* what a loop that pushes onto one Vec builds, computed by halving.       *)
RECURSIVE ConcatRange(_, _, _)
ConcatRange(ss, lo, hi) ==
    IF lo > hi THEN <<>>
    ELSE IF lo = hi THEN ss[lo]
    ELSE LET mid == (lo + hi) \div 2
         IN  ConcatRange(ss, lo, mid) \o ConcatRange(ss, mid + 1, hi)

Flatten(ss) == ConcatRange(ss, 1, Len(ss))

(* The sum of the integers vs[lo..hi]: the score += / score -= loop.       *)
RECURSIVE SumRange(_, _, _)
SumRange(vs, lo, hi) ==
    IF lo > hi THEN 0
    ELSE IF lo = hi THEN vs[lo]
    ELSE LET mid == (lo + hi) \div 2
         IN  SumRange(vs, lo, mid) + SumRange(vs, mid + 1, hi)

--------------------------------------------------------------------------
(* pieces/util.rs                                                          *)

(* add: push the square unless it is off the board or holds a friend.      *)
add(board, color, location) ==
    IF valid_pos(location) /\ get(board, location).color # color
    THEN <<location>> ELSE <<>>

add_ff(location) == IF valid_pos(location) THEN <<location>> ELSE <<>>

static_moves(piece, board, directions) ==
    Flatten([i \in 1..Len(directions) |->
                LET m == copy_move_i32(piece.pos, directions[i][1], directions[i][2])
                IN  IF m[2] THEN <<>> ELSE add(board, piece.color, m[1])])

static_attacks(piece, directions) ==
    Flatten([i \in 1..Len(directions) |->
                LET m == copy_move_i32(piece.pos, directions[i][1], directions[i][2])
                IN  IF m[2] THEN <<>> ELSE add_ff(m[1])])

(* The while loop of directional_moves along one direction.                *)
RECURSIVE moves_ray(_, _, _, _)
moves_ray(piece, board, l, d) ==
    IF ~valid_pos(l) THEN <<>>
    ELSE IF get(board, l).name # "None"
         THEN IF get(board, l).color # piece.color THEN <<l>> ELSE <<>>
         ELSE LET m == move_i32(l, d[1], d[2])
              IN  IF m[2] THEN <<l>> \o moves_ray(piece, board, m[1], d) ELSE <<l>>

directional_moves(piece, board, directions) ==
    Flatten([i \in 1..Len(directions) |->
                LET m == copy_move_i32(piece.pos, directions[i][1], directions[i][2])
                IN  IF m[2] THEN <<>> ELSE moves_ray(piece, board, m[1], directions[i])])

(* The while loop of directional_attacks along one direction.              *)
RECURSIVE attacks_ray(_, _, _)
attacks_ray(board, l, d) ==
    IF ~valid_pos(l) THEN <<>>
    ELSE IF get(board, l).name # "None" THEN <<l>>
         ELSE LET m == move_i32(l, d[1], d[2])
              IN  IF m[2] THEN <<l>> \o attacks_ray(board, m[1], d) ELSE <<l>>

directional_attacks(piece, board, directions) ==
    Flatten([i \in 1..Len(directions) |->
                LET m == copy_move_i32(piece.pos, directions[i][1], directions[i][2])
                IN  IF m[2] THEN <<>> ELSE attacks_ray(board, m[1], directions[i])])

--------------------------------------------------------------------------
(* pieces/knight.rs, rook.rs, bishop.rs, queen.rs                          *)

(* A knight table that lacks the four jumps of two ranks.                  *)
knight_directions_two_files == << <<2, 1>>, <<2, -1>>, <<-2, -1>>, <<-2, 1>> >>

knight_directions ==
    << <<1, 2>>, <<2, 1>>, <<2, -1>>, <<1, -2>>, <<-1, -2>>, <<-2, -1>>, <<-2, 1>>, <<-1, 2>> >>

rook_directions == << <<0, -1>>, <<0, 1>>, <<1, 0>>, <<-1, 0>> >>

bishop_directions == << <<1, 1>>, <<1, -1>>, <<-1, 1>>, <<-1, -1>> >>

queen_directions ==
    << <<0, -1>>, <<0, 1>>, <<1, 0>>, <<-1, 0>>, <<1, 1>>, <<1, -1>>, <<-1, 1>>, <<-1, -1>> >>

king_directions ==
    << <<0, -1>>, <<0, 1>>, <<1, -1>>, <<1, 0>>, <<1, 1>>, <<-1, -1>>, <<-1, 0>>, <<-1, 1>> >>

knight_moves(piece, board) == static_moves(piece, board, knight_directions)
knight_attacks(piece) == static_attacks(piece, knight_directions)
rook_moves(piece, board) == directional_moves(piece, board, rook_directions)
rook_attacks(piece, board) == directional_attacks(piece, board, rook_directions)
bishop_moves(piece, board) == directional_moves(piece, board, bishop_directions)
bishop_attacks(piece, board) == directional_attacks(piece, board, bishop_directions)
queen_moves(piece, board) == directional_moves(piece, board, queen_directions)
queen_attacks(piece, board) == directional_attacks(piece, board, queen_directions)

--------------------------------------------------------------------------
(* pieces/pawn.rs                                                          *)

(* add_if_empty: <<pushed squares, added>>                                 *)
add_if_empty(board, location) ==
    IF valid_pos(location) /\ get(board, location).name = "None"
    THEN <<(<<location>>), TRUE>> ELSE <<(<<>>), FALSE>>

add_if_capture(board, color, location) ==
    IF valid_pos(location)
       /\ get(board, location).name # "None"
       /\ get(board, location).color # color
    THEN <<location>> ELSE <<>>

pawn_moves(piece, board) ==
    LET direction == color_ternary(piece.color, -1, 1)
        forward == add_if_empty(board, copy_move_i32(piece.pos, 0, direction)[1])
        blocked == forward[2]
        double == IF blocked /\ (piece.pos[2] = 1 \/ piece.pos[2] = 6)
                  THEN add_if_empty(board, copy_move_i32(piece.pos, 0, direction * 2)[1])[1]
                  ELSE <<>>
        left_side == copy_move_i32(piece.pos, -1, direction)
        left == IF ~left_side[2] THEN add_if_capture(board, piece.color, left_side[1]) ELSE <<>>
        right_side == copy_move_i32(piece.pos, 1, direction)
        right == IF ~right_side[2] THEN add_if_capture(board, piece.color, right_side[1]) ELSE <<>>
        en_passent == board.en_passent
        passing ==
            IF en_passent # NoEnPassent
               /\ en_passent[2] # piece.color /\ en_passent[1][2] = piece.pos[2]
            THEN IF en_passent[1][1] = piece.pos[1] + 1
                 THEN add(board, piece.color, copy_move_i32(piece.pos, 1, direction)[1])
                 ELSE IF piece.pos[1] # 0 /\ en_passent[1][1] = piece.pos[1] - 1
                      THEN add(board, piece.color, copy_move_i32(piece.pos, -1, direction)[1])
                      ELSE <<>>
            ELSE <<>>
    IN  forward[1] \o double \o left \o right \o passing

(* pawn_attacks ignores the out flag of copy_move_i32.                     *)
pawn_attacks(piece) ==
    LET direction == color_ternary(piece.color, -1, 1)
    IN  add_ff(copy_move_i32(piece.pos, 1, direction)[1])
        \o add_ff(copy_move_i32(piece.pos, -1, direction)[1])

--------------------------------------------------------------------------
(* pieces/king.rs                                                          *)

(* The clear_range! macro: TRUE when some square start..=end of the king's *)
(* row is occupied.                                                        *)
clear_range(piece, board, start, end) ==
    \E i \in start..end : get(board, loc(i, piece.pos[2])).name # "None"

king_moves(piece, board) ==
    LET moves == static_moves(piece, board, king_directions)
        sides == color_ternary(piece.color, board.castle_white, board.castle_black)
        queen_side == sides[1]
        king_side == sides[2]
    IN  IF color_ternary(piece.color, board.check_white, board.check_black)
        THEN moves
        ELSE moves
             \o (IF queen_side /\ ~clear_range(piece, board, 1, 3)
                 THEN <<loc(2, piece.pos[2])>> ELSE <<>>)
             \o (IF king_side /\ ~clear_range(piece, board, 5, 6)
                 THEN <<loc(6, piece.pos[2])>> ELSE <<>>)

king_attacks(piece) == static_attacks(piece, king_directions)

--------------------------------------------------------------------------
(* pieces/piece.rs                                                         *)

(* Piece::get_attacks                                                      *)
Piece_get_attacks(piece, board) ==
    CASE piece.name = "Pawn" -> pawn_attacks(piece)
      [] piece.name = "Knight" -> knight_attacks(piece)
      [] piece.name = "King" -> king_attacks(piece)
      [] piece.name = "Rook" -> rook_attacks(piece, board)
      [] piece.name = "Bishop" -> bishop_attacks(piece, board)
      [] piece.name = "Queen" -> queen_attacks(piece, board)

(* The set piece.rs line 50 names board.attack_white / board.attack_black: *)
(* the Board fields documented in board.rs as the squares under attack BY  *)
(* the pieces of that color.                                               *)
attack_white(board) == board.attacks_white

attack_black(board) == board.attacks_black

(* The match of Piece::get_moves: the moves of the piece's kind, the       *)
(* king's filtered by the attack set that color_ternary!(self.color, ...)  *)
(* selects.                                                                *)
temp_moves(piece, board) ==
    CASE piece.name = "Pawn" -> pawn_moves(piece, board)
      [] piece.name = "Knight" -> knight_moves(piece, board)
      [] piece.name = "King" ->
            LET attacks == color_ternary(piece.color, attack_white(board), attack_black(board))
            IN  SelectSeq(king_moves(piece, board), LAMBDA to : to \notin attacks)
      [] piece.name = "Rook" -> rook_moves(piece, board)
      [] piece.name = "Bishop" -> bishop_moves(piece, board)
      [] piece.name = "Queen" -> queen_moves(piece, board)

--------------------------------------------------------------------------
(* board.rs, board_extras.rs: the Board                                    *)

Normal == <<"Normal">>
Check(color) == <<"Check", color>>
Checkmate(color) == <<"Checkmate", color>>
Stalemate == <<"Stalemate">>
Draw == <<"Draw">>

(* The capacity test of prev_states in move_piece.                         *)
PrevStatesCap == 24

(* The fifty-move threshold of detect_state.                               *)
FiftyLimit == 50

(* The hash value 0 that Board::new() stores.                              *)
ZeroHash == <<0>>

(* Board::new()                                                            *)
Board_new ==
    [raw |-> [l \in Locs |-> None],
     turn |-> White,
     state |-> Normal,
     player_color |-> White,
     agent_color |-> Black,
     castle_black |-> <<TRUE, TRUE>>,
     castle_white |-> <<TRUE, TRUE>>,
     en_passent |-> NoEnPassent,
     score |-> 0,
     attacks_white |-> {},
     attacks_black |-> {},
     check_white |-> FALSE,
     check_black |-> FALSE,
     blockers |-> {},
     moves_white |-> <<>>,
     moves_black |-> <<>>,
     half_moves |-> 0,
     prev_states |-> <<>>,
     fifty_rule |-> 0,
     endgame |-> FALSE,
     hash |-> ZeroHash,
     agent_developments |-> << <<FALSE, FALSE>>, <<FALSE, FALSE>> >>]

(* What the derived Hash of Option<Piece> feeds the hasher for one square, *)
(* as a number below 13; the piece's pos is the square it stands on.       *)
piece_code(piece) ==
    LET kind == CASE piece.name = "None" -> 0
                  [] piece.name = "Pawn" -> 1
                  [] piece.name = "Knight" -> 2
                  [] piece.name = "Bishop" -> 3
                  [] piece.name = "Rook" -> 4
                  [] piece.name = "Queen" -> 5
                  [] piece.name = "King" -> 6
    IN  kind + (IF piece.color = Black THEN 6 ELSE 0)

(* The squares of row y as fed to the hasher, written as one number in     *)
(* base 13.                                                                *)
row_code(board, y) ==
    LET f[x \in 0..8] ==
            IF x = 8 THEN 0 ELSE piece_code(board.raw[loc(x, y)]) + 13 * f[x + 1]
    IN  f[0]

(* Board::hash: FxHasher over (raw, castle_white, castle_black,            *)
(* en_passent), modelled as the hashed data itself (no collisions).        *)
hash(board) ==
    <<[y \in 0..7 |-> row_code(board, y)],
      board.castle_white, board.castle_black, board.en_passent>>

(* Board::full_moves                                                       *)
full_moves(board) == board.half_moves \div 2

(* Board::is_over                                                          *)
is_over(board) == board.state[1] \in {"Checkmate", "Stalemate", "Draw"}

(* The pieces of the grid in the order of raw.iter().flatten().flatten().  *)
pieces(board) ==
    SelectSeq([i \in 1..64 |-> board.raw[ENUMERATES[i]]], LAMBDA p : p.name # "None")

(* Board::get_kings (kings in board_extras.rs): <<white, black>>, each the *)
(* position of the last king of that color in grid order, or NoLoc.        *)
get_kings(board) ==
    LET ps == pieces(board)
        last(color) ==
            LET idx == {i \in 1..Len(ps) : ps[i].name = "King" /\ ps[i].color = color}
            IN  IF idx = {} THEN NoLoc
                ELSE ps[CHOOSE i \in idx : \A j \in idx : j <= i].pos
    IN  <<last(White), last(Black)>>

(* Board::get_attacks (attacks in board_extras.rs)                         *)
get_attacks(board, color) ==
    LET ps == pieces(board)
    IN  UNION {Range(Piece_get_attacks(ps[i], board)) :
               i \in {j \in 1..Len(ps) : ps[j].color = color}}

(* Board::is_capture: the captured square, or NoLoc.                       *)
is_capture(board, from, to) ==
    LET piece == get(board, from)
        en_passent == board.en_passent
    IN  IF get(board, to).name # "None" THEN to
        ELSE IF piece.name = "Pawn" /\ abs_diff(from[1], to[1]) = 1
                /\ en_passent # NoEnPassent
                /\ to[1] = en_passent[1][1]
                /\ abs_diff(to[2], en_passent[1][2]) = 1
                /\ piece.color # en_passent[2]
             THEN en_passent[1]
             ELSE NoLoc

(* The same transfer with the pos of the piece left as it was.             *)
move_raw_keeping_pos(board, from, to) ==
    set(set(board, to, get(board, from)), from, None)

(* Board::move_raw                                                         *)
move_raw(board, from, to) ==
    LET b1 == IF board.raw[from].name # "None"
              THEN [board EXCEPT !.raw[from].pos = to] ELSE board
        b2 == set(b1, to, get(b1, from))
    IN  set(b2, from, None)

(* A tail of move_actions that leaves en_passent as it is.                 *)
keep_en_passent(board, set_en_passent) == board

(* The tail of move_actions: en_passent is reset if this move has not set  *)
(* it.                                                                     *)
reset_en_passent(board, set_en_passent) ==
    IF ~set_en_passent /\ board.en_passent # NoEnPassent
    THEN [board EXCEPT !.en_passent = NoEnPassent]
    ELSE board

(* A pawn that stays a pawn wherever it goes.                              *)
no_promotion(board, from, to) == board

(* The promotion of move_actions: the pawn on from, bound for row 0 or row *)
(* 7, becomes a queen.                                                     *)
promotion(board, from, to) ==
    IF to[2] = 0 \/ to[2] = 7
    THEN [board EXCEPT !.raw[from].name = "Queen"] ELSE board

(* Board::move_actions                                                     *)
move_actions(board, from, to) ==
    LET b0 == IF board.raw[from].name # "None"
              THEN [board EXCEPT !.raw[from].pos = to] ELSE board
        piece == b0.raw[from]
        king ==
            LET b1 == IF piece.color = Black
                      THEN [b0 EXCEPT !.castle_black = <<FALSE, FALSE>>]
                      ELSE [b0 EXCEPT !.castle_white = <<FALSE, FALSE>>]
            IN  IF abs_diff(from[1], to[1]) = 2
                THEN CASE to[1] = 2 -> move_raw(b1, loc(0, to[2]), loc(3, to[2]))
                       [] to[1] = 6 -> move_raw(b1, loc(7, to[2]), loc(5, to[2]))
                       [] OTHER -> [b1 EXCEPT !.state = <<"panic">>]
                ELSE b1
        rook ==
            CASE from = loc(0, 0) -> [b0 EXCEPT !.castle_black[1] = FALSE]
              [] from = loc(7, 0) -> [b0 EXCEPT !.castle_black[2] = FALSE]
              [] from = loc(0, 7) -> [b0 EXCEPT !.castle_white[1] = FALSE]
              [] from = loc(7, 7) -> [b0 EXCEPT !.castle_white[2] = FALSE]
              [] OTHER -> b0
        pawn ==
            LET b1 == promotion(b0, from, to)
                b2 == IF abs_diff(from[2], to[2]) = 2
                      THEN [b1 EXCEPT !.en_passent = <<to, piece.color>>] ELSE b1
                ep == b2.en_passent
                b3 == IF abs_diff(from[1], to[1]) = 1 /\ ep # NoEnPassent
                         /\ to[1] = ep[1][1] /\ abs_diff(to[2], ep[1][2]) = 1
                         /\ piece.color # ep[2]
                      THEN set(b2, ep[1], None) ELSE b2
            IN  [b3 EXCEPT !.fifty_rule = b3.half_moves, !.prev_states = <<>>]
        knight ==
            LET y == color_ternary(piece.color, 7, 0)
            IN  IF from = loc(1, y) THEN [b0 EXCEPT !.agent_developments[1][2] = TRUE]
                ELSE IF from = loc(6, y) THEN [b0 EXCEPT !.agent_developments[1][1] = TRUE]
                ELSE b0
        bishop ==
            LET y == color_ternary(piece.color, 7, 0)
            IN  IF from = loc(2, y) THEN [b0 EXCEPT !.agent_developments[2][2] = TRUE]
                ELSE IF from = loc(5, y) THEN [b0 EXCEPT !.agent_developments[2][1] = TRUE]
                ELSE b0
        set_en_passent == piece.name = "Pawn" /\ abs_diff(from[2], to[2]) = 2
        acted == CASE piece.name = "King" -> king
                   [] piece.name = "Rook" -> rook
                   [] piece.name = "Pawn" -> pawn
                   [] piece.name = "Knight" -> knight
                   [] piece.name = "Bishop" -> bishop
                   [] OTHER -> b0
    IN  reset_en_passent(acted, set_en_passent)

castle_rook_captured_unnoticed(board, capture_pos) == board

(* The head of move_piece: a captured rook on its home corner loses the    *)
(* castling right of that corner.                                          *)
castle_rook_captured(board, capture_pos) ==
    IF capture_pos = NoLoc THEN board
    ELSE LET piece == get(board, capture_pos)
         IN  IF piece.name # "Rook" THEN board
             ELSE IF piece.color = White
                  THEN IF piece.pos = loc(0, 7) THEN [board EXCEPT !.castle_white[1] = FALSE]
                       ELSE IF piece.pos = loc(7, 7) THEN [board EXCEPT !.castle_white[2] = FALSE]
                       ELSE board
                  ELSE IF piece.pos = loc(0, 0) THEN [board EXCEPT !.castle_black[1] = FALSE]
                       ELSE IF piece.pos = loc(7, 0) THEN [board EXCEPT !.castle_black[2] = FALSE]
                       ELSE board

(* The prev_states update of move_piece: when the buffer holds 24 hashes   *)
(* it is rotated right by one and slot 0 overwritten, else the hash is     *)
(* pushed at the end.                                                      *)
push_prev_state(prev_states, h) ==
    IF Len(prev_states) = PrevStatesCap
    THEN <<h>> \o SubSeq(prev_states, 1, Len(prev_states) - 1)
    ELSE Append(prev_states, h)

(* Board::update_blockers                                                  *)
update_blockers(board) ==
    {l \in board.attacks_white : valid_pos(l) /\ get(board, l).color = Black}
    \cup {l \in board.attacks_black : valid_pos(l) /\ get(board, l).color = White}

(* The same detection with the check arms tried before the draws.         *)
detect_state_mate_first(board, check_stale) ==
    IF board.check_white /\ ~board.check_black
    THEN IF board.moves_white = <<>> THEN Checkmate(White) ELSE Check(White)
    ELSE IF ~board.check_white /\ board.check_black
    THEN IF board.moves_black = <<>> THEN Checkmate(Black) ELSE Check(Black)
    ELSE IF board.half_moves - board.fifty_rule >= FiftyLimit THEN Draw
    ELSE IF Cardinality({i \in 1..Len(board.prev_states) :
                            board.prev_states[i] = board.hash}) >= 3 THEN Draw
    ELSE IF Len(pieces(board)) = 2 THEN Draw
    ELSE IF board.check_white /\ board.check_black THEN board.state
    ELSE IF ~check_stale THEN board.state
    ELSE IF color_ternary(board.turn, board.moves_white, board.moves_black) = <<>>
         THEN Stalemate ELSE Normal

(* Board::detect_state: the new state.                                     *)
detect_state(board, check_stale) ==
    IF board.half_moves - board.fifty_rule >= FiftyLimit THEN Draw
    ELSE IF Cardinality({i \in 1..Len(board.prev_states) :
                            board.prev_states[i] = board.hash}) >= 3 THEN Draw
    ELSE IF Len(pieces(board)) = 2 THEN Draw
    ELSE CASE board.check_white /\ ~board.check_black ->
                IF board.moves_white = <<>> THEN Checkmate(White) ELSE Check(White)
           [] ~board.check_white /\ board.check_black ->
                IF board.moves_black = <<>> THEN Checkmate(Black) ELSE Check(Black)
           [] ~board.check_white /\ ~board.check_black ->
                IF ~check_stale THEN board.state
                ELSE IF color_ternary(board.turn, board.moves_white, board.moves_black) = <<>>
                     THEN Stalemate ELSE Normal
           [] OTHER -> board.state

(* The endgame block of update_things.                                     *)
is_endgame(board) ==
    LET ps == pieces(board)
        queens == Cardinality({i \in 1..Len(ps) : ps[i].name = "Queen"})
        minors == Cardinality({i \in 1..Len(ps) : ps[i].name \in {"Bishop", "Knight"}})
    IN  queens = 0 \/ minors <= queens

(* A turn update with both arms of the match giving White.                 *)
flip_turn_to_white(turn) == White

(* The turn update of move_piece.                                          *)
flip_turn(turn) == IF turn = Black THEN White ELSE Black

(* The part of move_piece between move_raw and update_things, on the board *)
(* that move_actions and move_raw have left: turn, half_moves, hash,       *)
(* prev_states and, for a capture, fifty_rule.                             *)
count_move(board, capture) ==
    LET b3 == [board EXCEPT !.turn = flip_turn(board.turn),
                            !.half_moves = board.half_moves + 1]
        b4 == [b3 EXCEPT !.hash = hash(b3)]
        b5 == [b4 EXCEPT !.prev_states = push_prev_state(b4.prev_states, b4.hash)]
    IN  IF capture THEN [b5 EXCEPT !.fifty_rule = b5.half_moves] ELSE b5

(* Board::move_piece up to its call of update_things: the board and the    *)
(* capture flag it will return.                                            *)
moved(board, from, to) ==
    IF get(board, from).name = "None" THEN [board |-> board, capture |-> FALSE, none |-> TRUE]
    ELSE LET capture_info == is_capture(board, from, to)
         IN  [board |-> count_move(
                            move_raw(
                                move_actions(castle_rook_captured(board, capture_info), from, to),
                                from, to),
                            capture_info # NoLoc),
              capture |-> capture_info # NoLoc,
              none |-> FALSE]

(* Board::update_things, first part: the attack sets.                      *)
update_attacks(board) ==
    [board EXCEPT !.attacks_white = get_attacks(board, White),
                  !.attacks_black = get_attacks(board, Black)]

(* Board::update_things, second part: the check flags and the blockers, on *)
(* a board whose attack sets are up to date.                               *)
update_checks(board) ==
    LET kings == get_kings(board)
        b2 == [board EXCEPT
                 !.check_white = IF kings[1] # NoLoc THEN kings[1] \in board.attacks_black ELSE TRUE,
                 !.check_black = IF kings[2] # NoLoc THEN kings[2] \in board.attacks_white ELSE TRUE]
    IN  [b2 EXCEPT !.blockers = update_blockers(b2)]

(* piece_table: the array of the piece, rows y = 0..7 of columns x = 0..7, *)
(* for a White piece or a Black one; the king has a pair of arrays for the *)
(* middle game and a pair for the endgame.                                 *)
piece_table(piece, endgame) ==
    CASE piece.name = "Pawn" ->
            color_ternary(piece.color,
              <<<<0, 0, 0, 0, 0, 0, 0, 0>>,
                <<50, 50, 50, 50, 50, 50, 50, 50>>,
                <<10, 10, 20, 30, 30, 20, 10, 10>>,
                <<5, 5, 10, 25, 25, 10, 5, 5>>,
                <<0, 0, 0, 20, 20, 0, 0, 0>>,
                <<5, -5, -10, 0, 0, -10, -5, 5>>,
                <<5, 10, 10, -20, -20, 10, 10, 5>>,
                <<0, 0, 0, 0, 0, 0, 0, 0>>>>,
              <<<<0, 0, 0, 0, 0, 0, 0, 0>>,
                <<5, 10, 10, -20, -20, 10, 10, 5>>,
                <<5, -5, -10, 0, 0, -10, -5, 5>>,
                <<0, 0, 0, 20, 20, 0, 0, 0>>,
                <<5, 5, 10, 25, 25, 10, 5, 5>>,
                <<10, 10, 20, 30, 30, 20, 10, 10>>,
                <<50, 50, 50, 50, 50, 50, 50, 50>>,
                <<0, 0, 0, 0, 0, 0, 0, 0>>>>)
      [] piece.name = "Bishop" ->
            color_ternary(piece.color,
              <<<<-20, -10, -10, -10, -10, -10, -10, -20>>,
                <<-10, 0, 0, 0, 0, 0, 0, -10>>,
                <<-10, 0, 5, 10, 10, 5, 0, -10>>,
                <<-10, 5, 5, 10, 10, 5, 5, -10>>,
                <<-10, 0, 10, 10, 10, 10, 0, -10>>,
                <<-10, 10, 10, 10, 10, 10, 10, -10>>,
                <<-10, 5, 0, 0, 0, 0, 5, -10>>,
                <<-20, -10, -10, -10, -10, -10, -10, -20>>>>,
              <<<<-20, -10, -10, -10, -10, -10, -10, -20>>,
                <<-10, 5, 0, 0, 0, 0, 5, -10>>,
                <<-10, 10, 10, 10, 10, 10, 10, -10>>,
                <<-10, 0, 10, 10, 10, 10, 0, -10>>,
                <<-10, 5, 5, 10, 10, 5, 5, -10>>,
                <<-10, 0, 5, 10, 10, 5, 0, -10>>,
                <<-10, 0, 0, 0, 0, 0, 0, -10>>,
                <<-20, -10, -10, -10, -10, -10, -10, -20>>>>)
      [] piece.name = "Knight" ->
            color_ternary(piece.color,
              <<<<-50, -40, -30, -30, -30, -30, -40, -50>>,
                <<-40, -20, 0, 0, 0, 0, -20, -40>>,
                <<-30, 0, 10, 15, 15, 10, 0, -30>>,
                <<-30, 5, 15, 20, 20, 15, 5, -30>>,
                <<-30, 0, 15, 20, 20, 15, 0, -30>>,
                <<-30, 5, 10, 15, 15, 10, 5, -30>>,
                <<-40, -20, 0, 5, 5, 0, -20, -40>>,
                <<-50, -40, -30, -30, -30, -30, -40, -50>>>>,
              <<<<-50, -40, -30, -30, -30, -30, -40, -50>>,
                <<-40, -20, 0, 5, 5, 0, -20, -40>>,
                <<-30, 5, 10, 15, 15, 10, 5, -30>>,
                <<-30, 0, 15, 20, 20, 15, 0, -30>>,
                <<-30, 5, 15, 20, 20, 15, 5, -30>>,
                <<-30, 0, 10, 15, 15, 10, 0, -30>>,
                <<-40, -20, 0, 0, 0, 0, -20, -40>>,
                <<-50, -40, -30, -30, -30, -30, -40, -50>>>>)
      [] piece.name = "Rook" ->
            color_ternary(piece.color,
              <<<<0, 0, 0, 0, 0, 0, 0, 0>>,
                <<5, 10, 10, 10, 10, 10, 10, 5>>,
                <<-5, 0, 0, 0, 0, 0, 0, -5>>,
                <<-5, 0, 0, 0, 0, 0, 0, -5>>,
                <<-5, 0, 0, 0, 0, 0, 0, -5>>,
                <<-5, 0, 0, 0, 0, 0, 0, -5>>,
                <<-5, 0, 0, 0, 0, 0, 0, -5>>,
                <<0, 0, 0, 5, 5, 0, 0, 0>>>>,
              <<<<0, 0, 0, 5, 5, 0, 0, 0>>,
                <<-5, 0, 0, 0, 0, 0, 0, -5>>,
                <<-5, 0, 0, 0, 0, 0, 0, -5>>,
                <<-5, 0, 0, 0, 0, 0, 0, -5>>,
                <<-5, 0, 0, 0, 0, 0, 0, -5>>,
                <<-5, 0, 0, 0, 0, 0, 0, -5>>,
                <<5, 10, 10, 10, 10, 10, 10, 5>>,
                <<0, 0, 0, 0, 0, 0, 0, 0>>>>)
      [] piece.name = "Queen" ->
            color_ternary(piece.color,
              <<<<-20, -10, -10, -5, -5, -10, -10, -20>>,
                <<-10, 0, 0, 0, 0, 0, 0, -10>>,
                <<-10, 0, 5, 5, 5, 5, 0, -10>>,
                <<-5, 0, 5, 5, 5, 5, 0, -5>>,
                <<0, 0, 5, 5, 5, 5, 0, -5>>,
                <<-10, 5, 5, 5, 5, 5, 0, -10>>,
                <<-10, 0, 5, 0, 0, 0, 0, -10>>,
                <<-20, -10, -10, -5, -5, -10, -10, -20>>>>,
              <<<<-20, -10, -10, -5, -5, -10, -10, -20>>,
                <<-10, 0, 5, 0, 0, 0, 0, -10>>,
                <<-10, 5, 5, 5, 5, 5, 0, -10>>,
                <<0, 0, 5, 5, 5, 5, 0, -5>>,
                <<-5, 0, 5, 5, 5, 5, 0, -5>>,
                <<-10, 0, 5, 5, 5, 5, 0, -10>>,
                <<-10, 0, 0, 0, 0, 0, 0, -10>>,
                <<-20, -10, -10, -5, -5, -10, -10, -20>>>>)
      [] piece.name = "King" ->
            IF ~endgame
            THEN color_ternary(piece.color,
                   <<<<-30, -40, -40, -50, -50, -40, -40, -30>>,
                     <<-30, -40, -40, -50, -50, -40, -40, -30>>,
                     <<-30, -40, -40, -50, -50, -40, -40, -30>>,
                     <<-30, -40, -40, -50, -50, -40, -40, -30>>,
                     <<-20, -30, -30, -40, -40, -30, -30, -20>>,
                     <<-10, -20, -20, -20, -20, -20, -20, -10>>,
                     <<20, 20, 0, 0, 0, 0, 20, 20>>,
                     <<20, 30, 10, 0, 0, 10, 30, 20>>>>,
                   <<<<20, 30, 10, 0, 0, 10, 30, 20>>,
                     <<20, 20, 0, 0, 0, 0, 20, 20>>,
                     <<-10, -20, -20, -20, -20, -20, -20, -10>>,
                     <<-20, -30, -30, -40, -40, -30, -30, -20>>,
                     <<-30, -40, -40, -50, -50, -40, -40, -30>>,
                     <<-30, -40, -40, -50, -50, -40, -40, -30>>,
                     <<-30, -40, -40, -50, -50, -40, -40, -30>>,
                     <<-30, -40, -40, -50, -50, -40, -40, -30>>>>)
            ELSE color_ternary(piece.color,
                   <<<<-50, -40, -30, -20, -20, -30, -40, -50>>,
                     <<-30, -20, -10, 0, 0, -10, -20, -30>>,
                     <<-30, -10, 20, 30, 30, 20, -10, -30>>,
                     <<-30, -10, 30, 40, 40, 30, -10, -30>>,
                     <<-30, -10, 30, 40, 40, 30, -10, -30>>,
                     <<-30, -10, 20, 30, 30, 20, -10, -30>>,
                     <<-30, -30, 0, 0, 0, 0, -30, -30>>,
                     <<-50, -30, -30, -30, -30, -30, -30, -50>>>>,
                   <<<<-50, -30, -30, -30, -30, -30, -30, -50>>,
                     <<-30, -30, 0, 0, 0, 0, -30, -30>>,
                     <<-30, -10, 20, 30, 30, 20, -10, -30>>,
                     <<-30, -10, 30, 40, 40, 30, -10, -30>>,
                     <<-30, -10, 30, 40, 40, 30, -10, -30>>,
                     <<-30, -10, 20, 30, 30, 20, -10, -30>>,
                     <<-30, -20, -10, 0, 0, -10, -20, -30>>,
                     <<-50, -40, -30, -20, -20, -30, -40, -50>>>>)

piece_value(name) ==
    CASE name = "Pawn" -> 100
      [] name = "Knight" -> 320
      [] name = "Bishop" -> 330
      [] name = "Rook" -> 500
      [] name = "Queen" -> 900
      [] name = "King" -> 20000

(* full_piece_value: the table is indexed [piece.pos.1][piece.pos.0].      *)
full_piece_value(piece, endgame) ==
    piece_value(piece.name) + piece_table(piece, endgame)[piece.pos[2] + 1][piece.pos[1] + 1]

CHECK_VALUE == 50
CHECKMATE_VALUE == 20000
STALEMATE_VALUE == -100

(* i32::MAX and i32::MIN                                                   *)
I32_MAX == 2147483647
I32_MIN == -I32_MAX - 1

(* Piece::get_value                                                        *)
Piece_get_value(piece) ==
    CASE piece.name = "Pawn" -> 1
      [] piece.name = "Knight" -> 3
      [] piece.name = "Bishop" -> 3
      [] piece.name = "Rook" -> 5
      [] piece.name = "Queen" -> 9
      [] piece.name = "King" -> 100

(* A pass that adds the value whatever the colour of the piece.            *)
signed_value_added(color, value) == value

(* One pass of the piece loop of get_score: value is added for a White    *)
(* piece and subtracted for a Black one.                                   *)
signed_value(color, value) == color_ternary(color, value, 0 - value)

(* The piece loop of get_score over the pieces ps of the grid.             *)
sum_values(ps, endgame) ==
    SumRange([i \in 1..Len(ps) |->
                 signed_value(ps[i].color, full_piece_value(ps[i], endgame))],
             1, Len(ps))

pieces_score(board) == sum_values(pieces(board), board.endgame)

(* The end of get_score: CHECK_VALUE is subtracted for a check on White    *)
(* and added for a check on Black.                                         *)
check_score(state) ==
    IF state[1] = "Check"
    THEN color_ternary(state[2], 0 - CHECK_VALUE, CHECK_VALUE)
    ELSE 0

(* Board::get_score                                                        *)
get_score(board) ==
    IF board.state[1] = "Checkmate"
    THEN color_ternary(board.state[2], 0 - CHECKMATE_VALUE, CHECKMATE_VALUE)
    ELSE IF board.state[1] \in {"Stalemate", "Draw"} THEN STALEMATE_VALUE
    ELSE pieces_score(board) + check_score(board.state)

(* The last statement of update_things: self.score = self.get_score().     *)
update_score(board) == [board EXCEPT !.score = get_score(board)]

(* Board::move_value                                                       *)
move_value(board, from, to) ==
    LET piece == get(board, from)
        temp_piece == [piece EXCEPT !.pos = to]
        capture_pos == is_capture(board, from, to)
        position == full_piece_value(piece, board.endgame)
                    - full_piece_value(temp_piece, board.endgame)
    IN  IF piece.name = "None" THEN -100
        ELSE IF piece.name = "Pawn" /\ (piece.pos[2] = 7 \/ piece.pos[2] = 0)
             THEN I32_MAX
        ELSE IF capture_pos # NoLoc
             THEN position + (Piece_get_value(piece)
                              - Piece_get_value(get(board, capture_pos)))
             ELSE position

(* Board::update_things, last part: the state, the endgame flag and the    *)
(* score.                                                                  *)
update_state(board, check_stale) ==
    update_score(LET b5 == [board EXCEPT !.state = detect_state(board, check_stale)]
                 IN  [b5 EXCEPT !.endgame = is_endgame(b5)])

(* Board::update_things(false): the move lists are left as they are.       *)
update_things_no_moves(board) == update_state(update_checks(update_attacks(board)), FALSE)

(* The retain of Piece::get_moves for a piece in blockers: the move is     *)
(* played on a clone by move_piece(&self.pos, &to, false) and kept when    *)
(* the mover's king is not in check afterwards.                            *)
keeps_king_safe(piece, board, to) ==
    LET m == moved(board, piece.pos, to)
        new_board == IF m.none THEN board ELSE update_things_no_moves(m.board)
    IN  color_ternary(piece.color, ~new_board.check_white, ~new_board.check_black)

(* Piece::get_moves                                                        *)
Piece_get_moves(piece, board) ==
    IF piece.color # board.turn THEN <<>>
    ELSE IF piece.pos \in board.blockers
         THEN SelectSeq(temp_moves(piece, board), LAMBDA to : keeps_king_safe(piece, board, to))
         ELSE temp_moves(piece, board)

(* The (piece.pos, m) pairs pushed for one piece.                          *)
from_to(pos, ms) == [k \in 1..Len(ms) |-> <<pos, ms[k]>>]

(* Board::get_moves (moves in board_extras.rs): (piece.pos, to) pairs.     *)
get_moves(board, color) ==
    LET ps == pieces(board)
    IN  Flatten([i \in 1..Len(ps) |->
                    IF ps[i].color = color
                    THEN from_to(ps[i].pos, Piece_get_moves(ps[i], board))
                    ELSE <<>>])

(* Board::update_things, third part: the move lists, when check_stale.     *)
update_moves(board) ==
    [board EXCEPT !.moves_white = get_moves(board, White),
                  !.moves_black = get_moves(board, Black)]

(* Board::update_things                                                    *)
update_things(board, check_stale) ==
    IF check_stale
    THEN update_state(update_moves(update_checks(update_attacks(board))), TRUE)
    ELSE update_things_no_moves(board)

(* A move_piece that reports a capture for an empty origin square.         *)
move_piece_flagging(board, from, to, check_stale) ==
    LET m == moved(board, from, to)
    IN  IF m.none THEN [board |-> board, capture |-> TRUE]
        ELSE [board |-> update_things(m.board, check_stale), capture |-> m.capture]

(* Board::move_piece: the board afterwards and the returned capture flag.  *)
move_piece(board, from, to, check_stale) ==
    LET m == moved(board, from, to)
    IN  IF m.none THEN [board |-> board, capture |-> FALSE]
        ELSE [board |-> update_things(m.board, check_stale), capture |-> m.capture]

--------------------------------------------------------------------------
(* Characters and strings (sequences of one-character strings).            *)

LOWER ==
    <<"a", "b", "c", "d", "e", "f", "g", "h", "i", "j", "k", "l", "m",
      "n", "o", "p", "q", "r", "s", "t", "u", "v", "w", "x", "y", "z">>

UPPER ==
    <<"A", "B", "C", "D", "E", "F", "G", "H", "I", "J", "K", "L", "M",
      "N", "O", "P", "Q", "R", "S", "T", "U", "V", "W", "X", "Y", "Z">>

DIGITS == <<"0", "1", "2", "3", "4", "5", "6", "7", "8", "9">>

IndexOf(s, c) == IF Contains(s, c) THEN CHOOSE i \in 1..Len(s) : s[i] = c ELSE 0

is_ascii_digit(c) == Contains(DIGITS, c)

to_digit(c) == IndexOf(DIGITS, c) - 1

is_uppercase(c) == Contains(UPPER, c)

to_lowercase(c) == IF Contains(UPPER, c) THEN LOWER[IndexOf(UPPER, c)] ELSE c

to_uppercase(c) == IF Contains(LOWER, c) THEN UPPER[IndexOf(LOWER, c)] ELSE c

(* u32::to_string                                                          *)
RECURSIVE to_string(_)
to_string(n) == IF n < 10 THEN <<DIGITS[n + 1]>> ELSE to_string(n \div 10) \o <<DIGITS[(n % 10) + 1]>>

(* str::parse::<u32>: the value, or -1 where the source gets an Err.       *)
parse_u32(s) ==
    LET f[i \in 0..Len(s)] == IF i = 0 THEN 0 ELSE f[i - 1] * 10 + to_digit(s[i])
    IN  IF s = <<>> \/ \E i \in 1..Len(s) : ~is_ascii_digit(s[i]) THEN -1 ELSE f[Len(s)]

(* str::split(sep)                                                         *)
RECURSIVE split(_, _)
split(s, sep) ==
    LET idx == {i \in 1..Len(s) : s[i] = sep}
    IN  IF idx = {} THEN <<s>>
        ELSE LET i == CHOOSE k \in idx : \A j \in idx : k <= j
             IN  <<SubSeq(s, 1, i - 1)>> \o split(SubSeq(s, i + 1, Len(s)), sep)

(* str::split_whitespace, for the blank as the only white space.           *)
split_whitespace(s) == SelectSeq(split(s, " "), LAMBDA part : part # <<>>)

(* util.rs validate_fen                                                    *)
validate_fen(fen) ==
    LET rows == split(fen, "/")
        sum(row) ==
            LET f[i \in 0..Len(row)] ==
                    IF i = 0 THEN 0
                    ELSE f[i - 1] + (IF is_ascii_digit(row[i]) THEN to_digit(row[i]) ELSE 1)
            IN  f[Len(row)]
    IN  (\A r \in 1..Len(rows) : sum(rows[r]) = 8) /\ Len(rows) = 8

(* Loc::as_notation                                                        *)
as_notation(l) == <<LOWER[l[1] + 1], DIGITS[(8 - l[2]) + 1]>>

(* Loc::from_notation: NoLoc where the source panics.                      *)
from_notation(notation) ==
    IF Len(notation) < 2 \/ ~Contains(LOWER, notation[1])
       \/ ~Contains(SubSeq(DIGITS, 2, 9), notation[2])
    THEN NoLoc
    ELSE loc(IndexOf(LOWER, notation[1]) - 1, 8 - to_digit(notation[2]))

(* A piece_to_char that gives the knight the king's letter.                *)
piece_to_char_knight_as_k(name) ==
    CASE name = "Pawn" -> "p"
      [] name = "Rook" -> "r"
      [] name = "Knight" -> "k"
      [] name = "Bishop" -> "b"
      [] name = "Queen" -> "q"
      [] name = "King" -> "k"

(* board_extras.rs piece_to_char                                           *)
piece_to_char(name) ==
    CASE name = "Pawn" -> "p"
      [] name = "Rook" -> "r"
      [] name = "Knight" -> "n"
      [] name = "Bishop" -> "b"
      [] name = "Queen" -> "q"
      [] name = "King" -> "k"

(* board_extras.rs char_to_piece: "None" where the source panics.          *)
char_to_piece(c) ==
    CASE to_lowercase(c) = "p" -> "Pawn"
      [] to_lowercase(c) = "n" -> "Knight"
      [] to_lowercase(c) = "b" -> "Bishop"
      [] to_lowercase(c) = "r" -> "Rook"
      [] to_lowercase(c) = "q" -> "Queen"
      [] to_lowercase(c) = "k" -> "King"
      [] OTHER -> "None"

--------------------------------------------------------------------------
(* board_extras.rs: from_fen and as_fen                                    *)

(* What from_fen leaves when it panics.                                    *)
Panicked == [Board_new EXCEPT !.state = <<"panic">>]

(* The placement loop of from_fen over the chars of one row (the chars     *)
(* between two '/'): x before each char, a digit adding its value to x and *)
(* a letter adding 1.                                                      *)
row_x(row_fen) ==
    LET f[i \in 1..Len(row_fen)] ==
            IF i = 1 THEN 0
            ELSE f[i - 1] + (IF is_ascii_digit(row_fen[i - 1])
                             THEN to_digit(row_fen[i - 1]) ELSE 1)
    IN  f

(* The placement loop of from_fen: a '/' sets x to 0 and adds 1 to y, so   *)
(* the chars up to the y-th '/' fill row y; a letter puts its piece on     *)
(* (x, y).                                                                 *)
place_pieces(board_fen) ==
    LET rows == split(board_fen, "/")
        xs == [y \in 1..Len(rows) |-> row_x(rows[y])]
        placed(l) == {i \in 1..Len(rows[l[2] + 1]) :
                         /\ ~is_ascii_digit(rows[l[2] + 1][i])
                         /\ xs[l[2] + 1][i] = l[1]}
    IN  [l \in Locs |->
            IF l[2] < Len(rows) /\ placed(l) # {}
            THEN LET c == rows[l[2] + 1][CHOOSE i \in placed(l) : TRUE]
                 IN  Piece(char_to_piece(c), IF is_uppercase(c) THEN White ELSE Black, l)
            ELSE None]

(* The castling loop of from_fen: a letter sets its right, nothing clears  *)
(* one.                                                                    *)
read_castle(board, castle_fen) ==
    LET f[i \in 0..Len(castle_fen)] ==
            IF i = 0 THEN board
            ELSE CASE castle_fen[i] = "K" -> [f[i - 1] EXCEPT !.castle_white[2] = TRUE]
                   [] castle_fen[i] = "Q" -> [f[i - 1] EXCEPT !.castle_white[1] = TRUE]
                   [] castle_fen[i] = "k" -> [f[i - 1] EXCEPT !.castle_black[2] = TRUE]
                   [] castle_fen[i] = "q" -> [f[i - 1] EXCEPT !.castle_black[1] = TRUE]
                   [] OTHER -> f[i - 1]
    IN  f[Len(castle_fen)]

fen_is_well_formed(parts) ==
    /\ Len(parts) >= 6
    /\ validate_fen(parts[1])
    /\ \A i \in 1..Len(parts[1]) :
          LET c == parts[1][i]
          IN  c = "/" \/ is_ascii_digit(c) \/ char_to_piece(c) # "None"
    /\ parts[2] \in {<<"w">>, <<"b">>}
    /\ \A i \in 1..Len(parts[3]) : parts[3][i] \in {"K", "Q", "k", "q", "-"}
    /\ \/ parts[4] = <<"-">>
       \/ LET l == from_notation(parts[4])
          IN  l # NoLoc /\ valid_pos(l) /\ place_pieces(parts[1])[l].name # "None"
    /\ parse_u32(parts[5]) >= 0
    /\ parse_u32(parts[6]) >= 1

(* The en passant part of from_fen.                                        *)
read_en_passent(board, en_passant) ==
    IF en_passant = <<"-">> THEN board
    ELSE LET l == from_notation(en_passant)
         IN  [board EXCEPT !.en_passent = <<l, get(board, l).color>>]

(* The counters part of from_fen: fifty_rule is the number read, and       *)
(* half_moves comes from full_moves and the turn.                          *)
read_counters(board, fifty_rule, full) ==
    [board EXCEPT !.fifty_rule = fifty_rule,
                  !.half_moves = color_ternary(board.turn, (full - 1) * 2, (full - 1) * 2 + 1)]

(* The turn part of from_fen.                                              *)
read_turn(board, turn_fen) ==
    [board EXCEPT !.turn = IF turn_fen = <<"w">> THEN White ELSE Black]

(* from_fen on the parts split_whitespace gives.                           *)
from_fen_parts(fen_parts) ==
    IF ~fen_is_well_formed(fen_parts) THEN Panicked
    ELSE update_things(
             read_counters(
                 read_en_passent(
                     read_castle(
                         read_turn([Board_new EXCEPT !.raw = place_pieces(fen_parts[1])],
                                   fen_parts[2]),
                         fen_parts[3]),
                     fen_parts[4]),
                 parse_u32(fen_parts[5]), parse_u32(fen_parts[6])),
             TRUE)

(* Board::from_fen                                                         *)
from_fen(fen) == from_fen_parts(split_whitespace(fen))

(* One row of the placement part of as_fen, from file i on, with empty    *)
(* the count of empty squares met since the last piece.                    *)
RECURSIVE row_string(_, _, _, _)
row_string(board, y, i, empty) ==
    IF i = 8 THEN <<>>
    ELSE LET p == board.raw[loc(i, y)]
         IN  IF p.name # "None"
             THEN (IF empty # 0 THEN to_string(empty) ELSE <<>>)
                  \o <<IF p.color = White
                       THEN to_uppercase(piece_to_char(p.name))
                       ELSE to_lowercase(piece_to_char(p.name))>>
                  \o row_string(board, y, i + 1, 0)
             ELSE (IF i = 7 THEN to_string(empty + 1) ELSE <<>>)
                  \o row_string(board, y, i + 1, empty + 1)

(* board_fen.join("/")                                                     *)
join_rows(board) ==
    Flatten([k \in 1..15 |->
                IF k % 2 = 1 THEN row_string(board, (k - 1) \div 2, 0, 0) ELSE <<"/">>])

(* Board::as_fen                                                           *)
as_fen(board) ==
    join_rows(board)
    \o <<" ", color_ternary(board.turn, "w", "b"), " ">>
    \o (IF ~board.castle_white[1] /\ ~board.castle_white[2]
           /\ ~board.castle_black[1] /\ ~board.castle_black[2]
        THEN <<"-">>
        ELSE (IF board.castle_white[1] THEN <<"K">> ELSE <<>>)
             \o (IF board.castle_white[2] THEN <<"Q">> ELSE <<>>)
             \o (IF board.castle_black[1] THEN <<"k">> ELSE <<>>)
             \o (IF board.castle_black[2] THEN <<"q">> ELSE <<>>))
    \o <<" ">>
    \o (IF board.en_passent # NoEnPassent THEN as_notation(board.en_passent[1]) ELSE <<"-">>)
    \o <<" ">>
    \o to_string(board.half_moves - board.fifty_rule)
    \o <<" ">>
    \o to_string(full_moves(board) + 1)

(* conf.rs FEN, the position Game::new() loads: the standard start.        *)
FEN ==
    <<"r", "n", "b", "q", "k", "b", "n", "r", "/",
      "p", "p", "p", "p", "p", "p", "p", "p", "/",
      "8", "/", "8", "/", "8", "/", "8", "/",
      "P", "P", "P", "P", "P", "P", "P", "P", "/",
      "R", "N", "B", "Q", "K", "B", "N", "R",
      " ", "w", " ", "K", "Q", "k", "q", " ", "-", " ", "0", " ", "1">>

--------------------------------------------------------------------------
(* The game: Game::new() loads FEN; a click on a highlighted square or an  *)
(* agent's answer commits a move with Game::move_piece; the search plays   *)
(* moves on clones with check_stale = false.                               *)

(* Scripted games, each a sequence of <<from, to>> half-moves from the     *)
(* starting position.                                                      *)
FoolsMate ==
    << <<loc(5, 6), loc(5, 5)>>, <<loc(4, 1), loc(4, 3)>>,
       <<loc(6, 6), loc(6, 4)>>, <<loc(3, 0), loc(7, 4)>> >>

(* Nf3 Nf6 Ng1 Ng8, three times over.                                      *)
KnightCycle ==
    << <<loc(6, 7), loc(5, 5)>>, <<loc(6, 0), loc(5, 2)>>,
       <<loc(5, 5), loc(6, 7)>>, <<loc(5, 2), loc(6, 0)>> >>

Threefold == KnightCycle \o KnightCycle \o KnightCycle

(* Twenty half-moves of the two queen's knights over empty squares, no     *)
(* position met twice, followed by the knight cycle three times over.      *)
QuietPrefix ==
    << <<loc(1, 7), loc(2, 5)>>, <<loc(1, 0), loc(2, 2)>>,
       <<loc(2, 5), loc(4, 4)>>, <<loc(2, 2), loc(3, 4)>>,
       <<loc(4, 4), loc(6, 5)>>, <<loc(3, 4), loc(5, 3)>>,
       <<loc(6, 5), loc(7, 3)>>, <<loc(5, 3), loc(6, 5)>>,
       <<loc(7, 3), loc(5, 4)>>, <<loc(6, 5), loc(7, 3)>>,
       <<loc(5, 4), loc(7, 5)>>, <<loc(7, 3), loc(5, 2)>>,
       <<loc(7, 5), loc(6, 3)>>, <<loc(5, 2), loc(6, 4)>>,
       <<loc(6, 3), loc(7, 5)>>, <<loc(6, 4), loc(7, 2)>>,
       <<loc(7, 5), loc(6, 3)>>, <<loc(7, 2), loc(5, 3)>>,
       <<loc(6, 3), loc(7, 5)>>, <<loc(5, 3), loc(6, 5)>> >>

LateThreefold == QuietPrefix \o Threefold

(* e4 a6 e5 d5 exd6: a double step answered by an en-passant capture.      *)
EnPassant ==
    << <<loc(4, 6), loc(4, 4)>>, <<loc(0, 1), loc(0, 2)>>,
       <<loc(4, 4), loc(4, 3)>>, <<loc(3, 1), loc(3, 3)>>,
       <<loc(4, 3), loc(3, 2)>> >>

(* h4 g5 hxg5 h6 gxh6 a6 h7 a5 hxg8: a pawn reaches the last rank.         *)
Promotion ==
    << <<loc(7, 6), loc(7, 4)>>, <<loc(6, 1), loc(6, 3)>>,
       <<loc(7, 4), loc(6, 3)>>, <<loc(7, 1), loc(7, 2)>>,
       <<loc(6, 3), loc(7, 2)>>, <<loc(0, 1), loc(0, 2)>>,
       <<loc(7, 2), loc(7, 1)>>, <<loc(0, 2), loc(0, 3)>>,
       <<loc(7, 1), loc(6, 0)>> >>

(* a4 a5 Ra3: the queen's rook leaves its corner.                          *)
RookLift ==
    << <<loc(0, 6), loc(0, 4)>>, <<loc(0, 1), loc(0, 3)>>,
       <<loc(0, 7), loc(0, 5)>> >>

(* h4 g5 hxg5 a6 g6 a5 g7 a4 gxh8: a pawn captures the rook on its corner.  *)
CornerCapture ==
    << <<loc(7, 6), loc(7, 4)>>, <<loc(6, 1), loc(6, 3)>>,
       <<loc(7, 4), loc(6, 3)>>, <<loc(0, 1), loc(0, 2)>>,
       <<loc(6, 3), loc(6, 2)>>, <<loc(0, 2), loc(0, 3)>>,
       <<loc(6, 2), loc(6, 1)>>, <<loc(0, 3), loc(0, 4)>>,
       <<loc(6, 1), loc(7, 0)>> >>

(* f3 e5 g4 Qh4+ a3 Qxe1: White leaves the check standing and the queen    *)
(* takes the king.                                                         *)
KingCapture ==
    FoolsMate \o << <<loc(0, 6), loc(0, 5)>>, <<loc(7, 4), loc(4, 7)>> >>

(* d4 e5 a3: Black, to move, can check from b4, and White has answers to   *)
(* that check.                                                             *)
BishopCheck ==
    << <<loc(3, 6), loc(3, 4)>>, <<loc(4, 1), loc(4, 3)>>,
       <<loc(0, 6), loc(0, 5)>> >>

(* e4 e5 f4 f5 Qh5+: Black is in check and to move.                        *)
QueenCheck ==
    << <<loc(4, 6), loc(4, 4)>>, <<loc(4, 1), loc(4, 3)>>,
       <<loc(5, 6), loc(5, 4)>>, <<loc(5, 1), loc(5, 3)>>,
       <<loc(3, 7), loc(7, 3)>> >>

(* e4 e5 f4 f5 Qh5+ Qh4+: Black answers the check with a check.            *)
DoubleCheck == QueenCheck \o << <<loc(3, 0), loc(7, 4)>> >>

(* Nf3 d6 Ne5 a6 e4 dxe5: a pawn takes the knight that stands in front of  *)
(* the pawn that has just made its double step.                            *)
PawnTakesKnight ==
    << <<loc(6, 7), loc(5, 5)>>, <<loc(3, 1), loc(3, 2)>>,
       <<loc(5, 5), loc(4, 3)>>, <<loc(0, 1), loc(0, 2)>>,
       <<loc(4, 6), loc(4, 4)>>, <<loc(3, 2), loc(4, 3)>> >>

Lines ==
    <<FoolsMate, Threefold, EnPassant, Promotion, RookLift, LateThreefold,
      CornerCapture, KingCapture, BishopCheck, QueenCheck, DoubleCheck,
      PawnTakesKnight>>

(* Position strings given to from_fen besides FEN: a white king on e1 with *)
(* no rook and a black rook on f3.                                         *)
BareKingFen ==
    <<"4", "k", "3", "/", "8", "/", "8", "/", "8", "/", "8", "/",
      "5", "r", "2", "/", "8", "/", "4", "K", "3",
      " ", "w", " ", "K", "Q", " ", "-", " ", "0", " ", "1">>

(* A black rook on a5 and the black king on g3 against the white king on   *)
(* h1, Black to move in its second full move: Ra1 mates, Rh5 only checks.  *)
MateFen ==
    <<"8", "/", "8", "/", "8", "/", "r", "7", "/", "8", "/",
      "6", "k", "1", "/", "8", "/", "7", "K",
      " ", "b", " ", "-", " ", "-", " ", "0", " ", "2">>

(* Each king on its home square behind its a-pawn, White to move in its    *)
(* second full move.                                                       *)
PawnFen ==
    <<"4", "k", "3", "/", "p", "7", "/", "8", "/", "8", "/", "8", "/",
      "8", "/", "P", "7", "/", "4", "K", "3",
      " ", "w", " ", "-", " ", "-", " ", "0", " ", "2">>

(* The position of MateFen with 49 half-moves since the last capture or    *)
(* pawn move: Ra1 mates and is the fiftieth.                               *)
FiftyMateFen ==
    <<"8", "/", "8", "/", "8", "/", "r", "7", "/", "8", "/",
      "6", "k", "1", "/", "8", "/", "7", "K",
      " ", "b", " ", "-", " ", "-", " ", "2", " ", "2", "6">>

(* The white king on e1 and a white knight on a1, the corner castling      *)
(* takes its rook from, against the black king on e8, White to move.       *)
CastleFen ==
    <<"4", "k", "3", "/", "8", "/", "8", "/", "8", "/", "8", "/",
      "8", "/", "8", "/", "N", "3", "K", "3",
      " ", "w", " ", "Q", " ", "-", " ", "0", " ", "1">>

Fens == <<FEN, BareKingFen, MateFen, PawnFen, FiftyMateFen, CastleFen>>

(* Option<(Loc, Loc)>::None                                                *)
NoMove == <<>>

(* The same sort with the smallest value first.                            *)
sort_by_value_ascending(moves, value) ==
    LET n == Len(moves)
        rank == [i \in 1..n |->
                    1 + Cardinality({j \in 1..n :
                                        \/ value[j] < value[i]
                                        \/ value[j] = value[i] /\ j < i})] \o <<>>
    IN  [k \in 1..n |-> moves[CHOOSE i \in 1..n : rank[i] = k]]

(* The sort of get_sorted_moves, on the moves and their values: largest    *)
(* value first. Moves of equal value stay in the order they were pushed,   *)
(* which is what sort_unstable_by (an insertion sort on at most 20         *)
(* elements) leaves.                                                       *)
sort_by_value(moves, value) ==
    LET n == Len(moves)
        rank == [i \in 1..n |->
                    1 + Cardinality({j \in 1..n :
                                        \/ value[j] > value[i]
                                        \/ value[j] = value[i] /\ j < i})] \o <<>>
    IN  [k \in 1..n |-> moves[CHOOSE i \in 1..n : rank[i] = k]]

(* The comparison key of each move: self.move_value(from, to).             *)
move_values(board, moves) ==
    [i \in 1..Len(moves) |-> move_value(board, moves[i][1], moves[i][2])] \o <<>>

(* The list get_sorted_moves sorts: the moves of color's pieces in grid    *)
(* order.                                                                  *)
sort_moves(board, moves) == sort_by_value(moves, move_values(board, moves))

(* Board::get_sorted_moves                                                 *)
get_sorted_moves(board, color) == sort_moves(board, get_moves(board, color))

(* moves.choose().copied(): the values it can return.                      *)
choose(moves) == IF moves = <<>> THEN {NoMove} ELSE Range(moves)

(* random_agent: the values it can return.                                 *)
random_agent(board) == choose(get_moves(board, board.agent_color))

OPENINGS_BLACK ==
    << <<loc(2, 1), loc(2, 3)>>, <<loc(3, 1), loc(3, 3)>>,
       <<loc(4, 1), loc(4, 3)>>, <<loc(5, 1), loc(5, 3)>> >>

OPENINGS_WHITE ==
    << <<loc(2, 6), loc(2, 4)>>, <<loc(3, 6), loc(3, 4)>>,
       <<loc(4, 6), loc(4, 4)>>, <<loc(5, 6), loc(5, 4)>> >>

(* The indices gen_range can give choose_array for an opening.             *)
OpeningChoices == 1..Len(OPENINGS_WHITE)

max(a, b) == IF a >= b THEN a ELSE b

min(a, b) == IF a <= b THEN a ELSE b

(* A cut-off test that stops the loop after the first move.                *)
cut_off_always(alpha, beta) == TRUE

(* The test of minimax that ends the loop over the moves: beta <= alpha.   *)
cut_off(alpha, beta) == beta <= alpha

(* minimax, and the loop over moves from its i-th move on, with the best   *)
(* score and move found so far; rand is the index choose_array draws. The  *)
(* result is (score, best_move).                                           *)
RECURSIVE minimax(_, _, _, _, _, _)
RECURSIVE minimax_loop(_, _, _, _, _, _, _, _, _, _)

(* The end of one pass of the loop, with the best score and move after the *)
(* pass: alpha or beta is updated and the loop breaks or goes on.          *)
loop_end(board, maximizing, depth, moves, i, alpha, beta, new_score, new_move, rand) ==
    LET new_alpha == IF maximizing THEN max(alpha, new_score) ELSE alpha
        new_beta == IF maximizing THEN beta ELSE min(beta, new_score)
    IN  IF cut_off(new_alpha, new_beta)
        THEN [score |-> new_score, best_move |-> new_move]
        ELSE minimax_loop(board, maximizing, depth, moves, i + 1,
                          new_alpha, new_beta, new_score, new_move, rand)

(* One pass of the loop once the score of the move is known: the move      *)
(* replaces the best one if its score is strictly better.                  *)
loop_pass(board, maximizing, depth, moves, i, alpha, beta, best_score, best_move, rand, score) ==
    IF (IF maximizing THEN score > best_score ELSE score < best_score)
    THEN loop_end(board, maximizing, depth, moves, i, alpha, beta, score, moves[i], rand)
    ELSE loop_end(board, maximizing, depth, moves, i, alpha, beta, best_score, best_move, rand)

minimax_loop(board, maximizing, depth, moves, i, alpha, beta, best_score, best_move, rand) ==
    IF i > Len(moves) THEN [score |-> best_score, best_move |-> best_move]
    ELSE loop_pass(board, maximizing, depth, moves, i, alpha, beta, best_score, best_move, rand,
                   minimax(move_piece(board, moves[i][1], moves[i][2], FALSE).board,
                           ~maximizing, depth - 1, alpha, beta, rand).score)

minimax(board, maximizing, depth, alpha, beta, rand) ==
    IF depth = 0 \/ is_over(board) THEN [score |-> board.score, best_move |-> NoMove]
    ELSE IF full_moves(board) = 0
         THEN [score |-> 0,
               best_move |-> color_ternary(board.agent_color,
                                           OPENINGS_WHITE, OPENINGS_BLACK)[rand]]
    ELSE minimax_loop(board, maximizing, depth, get_sorted_moves(board, board.turn), 1,
                      alpha, beta, IF maximizing THEN I32_MIN ELSE I32_MAX, NoMove, rand)

(* The depth minimax_agent searches to.                                    *)
SearchDepth == 4

(* A minimax_agent that stops after the pass of depth 1.                   *)
minimax_agent_shallow(board) ==
    {minimax(board, FALSE, 1, I32_MIN, I32_MAX, rand).best_move :
        rand \in OpeningChoices}

(* minimax_agent: the moves it can return.                                 *)
minimax_agent(board) ==
    {minimax(board, FALSE, SearchDepth, I32_MIN, I32_MAX, rand).best_move :
        rand \in OpeningChoices}

(* Agent::get_move: the values the call can return.                        *)
Agent_get_move(a, board) ==
    CASE a = "Minimax" -> minimax_agent(board)
      [] a = "Random" -> random_agent(board)

--------------------------------------------------------------------------
(* game.rs: the Game                                                       *)

(* Game::new(), its fields other than board and last_move: agent_channel   *)
(* is the sequence of results sent and not yet received, board_history the *)
(* (board, last_move) pairs pushed.                                        *)
Game_new ==
    [agent |-> "Minimax",
     waiting_on_agent |-> FALSE,
     agent_channel |-> <<>>,
     board_history |-> <<>>]

(* The first statement of Game::move_piece: the board and last_move are    *)
(* pushed when it is the player's turn.                                    *)
push_history(g, b, lm) ==
    IF b.turn = b.player_color
    THEN [g EXCEPT !.board_history = Append(@, <<b, lm>>)]
    ELSE g

(* The first test of Game::update: clicks are handled.                     *)
players_turn(g, b) == g.agent = "Control" \/ b.turn = b.player_color

(* A start of the search that leaves waiting_on_agent as it is.            *)
start_search_unflagged(g) == g

(* The last branch of Game::update: waiting_on_agent = true.               *)
start_search(g) == [g EXCEPT !.waiting_on_agent = TRUE]

(* try_recv gave Ok(mov): the result leaves the channel and                *)
(* waiting_on_agent = false.                                               *)
receive(g) ==
    [g EXCEPT !.waiting_on_agent = FALSE, !.agent_channel = Tail(@)]

(* The agents a button can select, with Agent::Control of game.rs.         *)
AgentButtons == {"Minimax", "Random", "Control"}

VARIABLES
    board,      \* Game.board, or the clone the search is working on
    line,       \* 0: free play; i > 0: the game follows Lines[i]
    ply,        \* the number of move_piece calls made on board
    clone,      \* TRUE once board is a clone moved by the search
    depth,      \* the number of move_piece calls the search made on the clone
    capture,    \* what the last move_piece call returned
    last_move,  \* Game.last_move: the arguments of the last move_piece call
    game,       \* the other fields of the Game, as in Game_new
    workers,    \* the spawned searches that have not sent their result yet
    replies     \* the number of agent moves committed since Game::new()

vars == <<board, line, ply, clone, depth, capture, last_move, game, workers, replies>>

(* Game::new(): board = Board::from_fen(FEN)                               *)
Init ==
    /\ board = from_fen(FEN)
    /\ line \in 0..Len(Lines)
    /\ ply = 0
    /\ clone = FALSE
    /\ depth = 0
    /\ capture = FALSE
    /\ last_move = NoMove
    /\ game = Game_new
    /\ workers = <<>>
    /\ replies = 0

(* Board::from_fen on any of the position strings Fens.                    *)
InitFen ==
    \/ Init
    \/ /\ \E i \in 1..Len(Fens) : board = from_fen(Fens[i])
       /\ line = 0
       /\ ply = 0
       /\ clone = FALSE
       /\ depth = 0
       /\ capture = FALSE
       /\ last_move = NoMove
       /\ game = Game_new
       /\ workers = <<>>
       /\ replies = 0

(* The squares the player may click after selecting the piece on from:     *)
(* Game.highlight_moves = selected.get_moves(&board), for a piece of the   *)
(* side to move.                                                           *)
highlight_moves(from) ==
    IF get(board, from).name # "None" /\ get(board, from).color = board.turn
    THEN Range(Piece_get_moves(get(board, from), board))
    ELSE {}

(* The moves the environment is allowed to choose next.                    *)
Scheduled(from, to) ==
    IF line = 0 THEN ply < MaxPly
    ELSE ply < Len(Lines[line]) /\ Lines[line][ply + 1] = <<from, to>>

(* Game.agent, set by the agent buttons: a scripted line is played with    *)
(* Agent::Control, every move of it a click, and Agent::Minimax is chosen  *)
(* when the line is over; free play is under Agent::Control.               *)
agent == IF line > 0 /\ ply >= Len(Lines[line]) THEN "Minimax" ELSE "Control"

(* The outcome r of a move_piece call takes effect: the board it leaves     *)
(* and the capture flag it returns.                                        *)
played(r) ==
    /\ board' = r.board
    /\ capture' = r.capture

(* Game::move_piece: board.move_piece(from, to, true), for the selected     *)
(* piece on from and a click on to, one of its highlighted squares.         *)
GameMove(from) ==
    /\ ~clone
    /\ \E to \in highlight_moves(from) :
          /\ Scheduled(from, to)
          /\ played(move_piece(board, from, to, TRUE))
          /\ last_move' = <<from, to>>
    /\ game' = push_history(game, board, last_move)
    /\ ply' = ply + 1
    /\ UNCHANGED <<line, clone, depth, workers, replies>>

(* minimax: Agent::Minimax is given board.clone() when it is not the       *)
(* player's turn; unless the board is over or still in its first full      *)
(* move, the search plays test_board.move_piece(from, to, false) for a     *)
(* move (from, to) of the side to move (get_sorted_moves), and so on down  *)
(* the tree.                                                               *)
SearchMove(from) ==
    /\ depth < MaxDepth
    /\ clone \/ (agent # "Control" /\ board.turn # board.player_color)
    /\ ~is_over(board)
    /\ full_moves(board) # 0
    /\ \E to \in highlight_moves(from) :
          /\ played(move_piece(board, from, to, FALSE))
          /\ last_move' = <<from, to>>
    /\ ply' = ply + 1
    /\ clone' = TRUE
    /\ depth' = depth + 1
    /\ UNCHANGED <<line, game, workers, replies>>

Next ==
    \E from \in Locs :
        \/ GameMove(from)
        \/ SearchMove(from)

Spec == Init /\ [][Next]_vars

SpecFen == InitFen /\ [][Next]_vars

(* The number of agent moves after which a game is left alone.             *)
MaxReplies == 1

(* The scripted lines a Game is played along: Threefold and KingCapture.   *)
GameLines == {2, 8}

(* Game::new(), the player about to follow one of GameLines.               *)
InitGame == Init /\ line \in GameLines

(* Game::update, first branch: a click on a highlighted square when clicks *)
(* are handled.                                                            *)
Click(from) ==
    /\ players_turn(game, board)
    /\ replies < MaxReplies
    /\ GameMove(from)

(* Game::update, last branch: the board is cloned, waiting_on_agent is set *)
(* and a worker is spawned with the clone and the agent. A Minimax worker  *)
(* is started only where its result needs no search of the tree (the      *)
(* board is over or in its first full move).                               *)
StartSearch ==
    /\ ~clone
    /\ ~players_turn(game, board)
    /\ ~game.waiting_on_agent
    /\ replies < MaxReplies
    /\ game.agent = "Minimax" => (is_over(board) \/ full_moves(board) = 0)
    /\ game' = start_search(game)
    /\ workers' = Append(workers, [agent |-> game.agent, board |-> board])
    /\ UNCHANGED <<board, line, ply, clone, depth, capture, last_move, replies>>

(* A worker: sender.send(agent.get_move(&board)).                          *)
WorkerSend ==
    /\ \E i \in 1..Len(workers) :
          /\ \E result \in Agent_get_move(workers[i].agent, workers[i].board) :
                game' = [game EXCEPT !.agent_channel = Append(@, result)]
          /\ workers' = SubSeq(workers, 1, i - 1) \o SubSeq(workers, i + 1, Len(workers))
    /\ UNCHANGED <<board, line, ply, clone, depth, capture, last_move, replies>>

(* Game::update, second branch, when try_recv gives a result: the flag is  *)
(* cleared and a move received is played by Game::move_piece.              *)
Receive ==
    /\ ~clone
    /\ ~players_turn(game, board)
    /\ game.waiting_on_agent
    /\ game.agent_channel # <<>>
    /\ IF Head(game.agent_channel) # NoMove
       THEN /\ game' = push_history(receive(game), board, last_move)
            /\ played(move_piece(board, Head(game.agent_channel)[1],
                                  Head(game.agent_channel)[2], TRUE))
            /\ last_move' = Head(game.agent_channel)
            /\ ply' = IF get(board, Head(game.agent_channel)[1]).name = "None"
                      THEN ply ELSE ply + 1
            /\ replies' = replies + 1
       ELSE /\ game' = receive(game)
            /\ UNCHANGED <<board, capture, last_move, ply, replies>>
    /\ UNCHANGED <<line, clone, depth, workers>>

(* update_keys, key R: unless waiting_on_agent, *self = Game::new(). A     *)
(* worker of the old Game cannot reach the new channel.                    *)
Reset ==
    /\ ~clone
    /\ ~game.waiting_on_agent
    /\ game' = Game_new
    /\ board' = from_fen(FEN)
    /\ last_move' = NoMove
    /\ ply' = 0
    /\ replies' = 0
    /\ workers' = <<>>
    /\ UNCHANGED <<line, clone, depth, capture>>

(* update_keys, key L: unless waiting_on_agent, the last pair of           *)
(* board_history is popped and becomes board and last_move.                *)
Takeback ==
    /\ ~clone
    /\ ~game.waiting_on_agent
    /\ game.board_history # <<>>
    /\ LET top == game.board_history[Len(game.board_history)]
       IN  /\ board' = top[1]
           /\ last_move' = top[2]
           /\ ply' = top[1].half_moves
    /\ game' = [game EXCEPT !.board_history = SubSeq(@, 1, Len(@) - 1)]
    /\ UNCHANGED <<line, clone, depth, capture, workers, replies>>

(* update_buttons: an agent button is pressed.                             *)
SetAgent(a) ==
    /\ ~clone
    /\ a # game.agent
    /\ game' = [game EXCEPT !.agent = a]
    /\ UNCHANGED <<board, line, ply, clone, depth, capture, last_move, workers, replies>>

NextGame ==
    \/ \E from \in Locs : Click(from)
    \/ StartSearch
    \/ WorkerSend
    \/ Receive
    \/ Reset
    \/ Takeback
    \/ \E a \in AgentButtons : SetAgent(a)

SpecGame == InitGame /\ [][NextGame]_vars

--------------------------------------------------------------------------
(* Properties                                                              *)

(* The legal-move list of the side to move on a board of the game.         *)
legal_moves == color_ternary(board.turn, board.moves_white, board.moves_black)

(* color's king is attacked on position b: check_white / check_black as    *)
(* update_things computes them.                                            *)
in_check(b, color) == color_ternary(color, b.check_white, b.check_black)

(* The position after the move m = <<from, to>> is applied to b.           *)
after(b, m) == move_piece(b, m[1], m[2], FALSE).board

(* C1: on every board of a game played from the starting position, no     *)
(* move of the legal-move list of the side to move leaves the mover's own  *)
(* king attacked once the move is applied.                                 *)
C1_LegalMovesKeepKingSafe ==
    ~clone =>
        \A i \in 1..Len(legal_moves) : ~in_check(after(board, legal_moves[i]), board.turn)

(* The moves of piece p by its movement pattern alone, own-king safety     *)
(* left aside: for the king, king_moves without the attack filter.         *)
pattern_moves(b, p) ==
    IF p.name = "King" THEN king_moves(p, b) ELSE temp_moves(p, b)

(* color has a move that leaves its king unattacked.                       *)
has_safe_move(b, color) ==
    \E l \in Locs :
        /\ get(b, l).color = color
        /\ \E to \in Range(pattern_moves(b, get(b, l))) :
               ~in_check(after(b, <<l, to>>), color)

(* C2: after move_piece(from, to, true) gives a position that is not a     *)
(* draw, state is Checkmate(c) exactly when c is to move, c's king is      *)
(* attacked and c has no move leaving its king unattacked; state is        *)
(* Stalemate exactly when the side to move is not in check and has no such *)
(* move; and the moves of FoolsMate end with state = Checkmate(White).     *)
C2_MateAndStalemateDetected ==
    (~clone /\ ply > 0 /\ board.state # Draw) =>
        /\ \A c \in {White, Black} :
               board.state = Checkmate(c)
               <=> (board.turn = c /\ in_check(board, c) /\ ~has_safe_move(board, c))
        /\ board.state = Stalemate
           <=> (~in_check(board, board.turn) /\ ~has_safe_move(board, board.turn))
        /\ (line = 1 /\ ply = Len(FoolsMate)) => board.state = Checkmate(White)

(* C3: every committed move_piece call leaves turn the opposite colour of  *)
(* what it was before the call, whatever the piece moved and whether the   *)
(* call recomputes the move lists (GameMove) or not (SearchMove).          *)
C3_TurnFlipsOnce ==
    [][/\ board.turn = White => board'.turn = Black
       /\ board.turn = Black => board'.turn = White]_vars

(* A king has just castled (moved two files) and the turn went to Black.   *)
C3_Witness ==
    /\ ply > 0
    /\ get(board, last_move[2]).name = "King"
    /\ abs_diff(last_move[1][1], last_move[2][1]) = 2
    /\ board.turn = Black

(* C4: after every move_piece call en_passent is Some((to, colour)) if the *)
(* move was a pawn move of two ranks by a pawn of that colour ending on    *)
(* to, and None after any other move, the en-passant capture included.     *)
C4_EnPassentOnlyAfterDoubleStep ==
    [][LET from == last_move'[1]
           to == last_move'[2]
           piece == get(board, from)
       IN  IF piece.name = "Pawn" /\ abs_diff(from[2], to[2]) = 2
           THEN board'.en_passent = <<to, piece.color>>
           ELSE board'.en_passent = NoEnPassent]_vars

(* Black has answered with the double step d7-d5, and (next state of the   *)
(* line) White captures it en passant.                                     *)
C4_Witness ==
    /\ last_move = <<loc(3, 1), loc(3, 3)>>
    /\ board.en_passent = <<loc(3, 3), Black>>
    /\ <<loc(4, 3), loc(3, 2)>> \in Range(board.moves_white)

(* C5: for every board of a game played from the starting position,        *)
(* from_fen(as_fen(board)) has the same grid, turn, four castling rights   *)
(* and en-passant value as board.                                          *)
C5_FenRoundTrip ==
    ~clone =>
        LET back == from_fen(as_fen(board))
        IN  /\ back.raw = board.raw
            /\ back.turn = board.turn
            /\ back.castle_white[1] = board.castle_white[1]
            /\ back.castle_white[2] = board.castle_white[2]
            /\ back.castle_black[1] = board.castle_black[1]
            /\ back.castle_black[2] = board.castle_black[2]
            /\ back.en_passent = board.en_passent

(* C6: as_fen(from_fen(s)) = s for s the position string of the standard   *)
(* start, "rnbqkbnr/pppppppp/8/8/8/8/PPPPPPPP/RNBQKBNR w KQkq - 0 1".      *)
C6_StartFenRoundTrip ==
    (ply = 0 /\ board = from_fen(FEN)) => as_fen(board) = FEN

(* The board from_fen built from the start string, written back by as_fen  *)
(* from its first row to its move counter.                                 *)
C6_Witness ==
    /\ ply = 0
    /\ board = from_fen(FEN)
    /\ as_fen(board)[1] = "r"
    /\ as_fen(board)[Len(FEN)] = "1"

(* C7: on the standard starting position with White to move, the legal     *)
(* moves of White are exactly 20 distinct (from, to) pairs, 16 of pawns    *)
(* and 4 of knights, and Black, who is not to move, is offered no move.    *)
C7_TwentyMovesAtStart ==
    (ply = 0 /\ board = from_fen(FEN)) =>
        LET ms == get_moves(board, White)
            by(name) == {i \in 1..Len(ms) : get(board, ms[i][1]).name = name}
        IN  /\ Len(ms) = 20
            /\ Cardinality(Range(ms)) = 20
            /\ Cardinality(by("Pawn")) = 16
            /\ Cardinality(by("Knight")) = 4
            /\ board.moves_white = ms
            /\ get_moves(board, Black) = <<>>
            /\ board.moves_black = <<>>
            /\ \A l \in Locs : get(board, l).color = Black => highlight_moves(l) = {}

(* The starting position, White to move, with Ng1-f3 among White's moves.  *)
C7_Witness ==
    /\ ply = 0
    /\ board.turn = White
    /\ board.half_moves = 0
    /\ <<loc(6, 7), loc(5, 5)>> \in Range(board.moves_white)

(* How many entries of the sequence s equal e.                             *)
occurrences(s, e) == Cardinality({i \in 1..Len(s) : s[i] = e})

(* C8: whenever move_piece leaves a position whose hash is at least three  *)
(* times among the recorded hashes prev_states, state is Draw; and playing *)
(* the four-move knight cycle three times over ends with state = Draw,     *)
(* from the starting position (Threefold) and from the quiet position      *)
(* reached by QuietPrefix (LateThreefold).                                 *)
C8_ThreefoldIsDraw ==
    /\ (ply > 0 /\ occurrences(board.prev_states, board.hash) >= 3) => board.state = Draw
    /\ (line = 2 /\ ply = Len(Threefold)) => board.state = Draw
    /\ (line = 6 /\ ply = Len(LateThreefold)) => board.state = Draw

(* C9: a capture or a pawn move resets the fifty-move count, half_moves -  *)
(* fifty_rule, to zero, so that the count is the same after a pawn move as *)
(* after a capture and reaches 50 only after 50 further half-moves.        *)
C9_FiftyCountResets ==
    [][LET piece == get(board, last_move'[1])
       IN  (piece.name = "Pawn" \/ capture')
               => board'.half_moves - board'.fifty_rule = 0]_vars

(* C10: a castling move, the king going from file 4 to file 2 or 6 of its  *)
(* back rank, is offered only if the king is not in check and neither the  *)
(* square it passes over nor the square it lands on is attacked by the     *)
(* opponent.                                                               *)
C10_CastlingAvoidsAttackedSquares ==
    \A y \in {0, 7}, file \in {2, 6} :
        LET king == get(board, loc(4, y))
            attacked == color_ternary(king.color, board.attacks_black, board.attacks_white)
        IN  (/\ king.name = "King"
             /\ y = color_ternary(king.color, 7, 0)
             /\ loc(file, y) \in highlight_moves(loc(4, y)))
            => /\ ~in_check(board, king.color)
               /\ loc((4 + file) \div 2, y) \notin attacked
               /\ loc(file, y) \notin attacked

(* The castling right of the corner l, if l is a corner: castle_white and  *)
(* castle_black hold (queen side, king side).                              *)
corner_right(b, l) ==
    CASE l = loc(0, 0) -> b.castle_black[1]
      [] l = loc(7, 0) -> b.castle_black[2]
      [] l = loc(0, 7) -> b.castle_white[1]
      [] l = loc(7, 7) -> b.castle_white[2]
      [] OTHER -> FALSE

(* C11: under move_piece castling rights only ever decrease: no right that *)
(* is false becomes true; a king move leaves both rights of its colour     *)
(* false; a rook move from a corner leaves that corner's right false; and  *)
(* the capture of a rook standing on its home corner leaves that corner's  *)
(* right false.                                                            *)
C11_CastlingRightsOnlyDecrease ==
    [][LET from == last_move'[1]
           to == last_move'[2]
           piece == get(board, from)
           target == get(board, to)
       IN  /\ \A i \in 1..2 :
                 /\ board'.castle_white[i] => board.castle_white[i]
                 /\ board'.castle_black[i] => board.castle_black[i]
           /\ piece.name = "King" =>
                 color_ternary(piece.color, board'.castle_white, board'.castle_black)
                     = <<FALSE, FALSE>>
           /\ piece.name = "Rook" => ~corner_right(board', from)
           /\ (/\ target.name = "Rook"
               /\ to[2] = color_ternary(target.color, 7, 0)
               /\ to[1] \in {0, 7})
              => ~corner_right(board', to)]_vars

(* The pawn of CornerCapture has just taken the rook on h8: Black has lost *)
(* the king-side right and keeps the queen-side one.                       *)
C11_Witness ==
    /\ last_move = <<loc(6, 1), loc(7, 0)>>
    /\ capture
    /\ board.castle_black = <<TRUE, FALSE>>
    /\ board.castle_white = <<TRUE, TRUE>>

(* The squares holding a king of color on position b.                      *)
kings_of(b, color) ==
    {l \in Locs : get(b, l).name = "King" /\ get(b, l).color = color}

(* C12: in a game played from the starting position with every move taken *)
(* from the legal-move list of the side to move, no king is ever captured: *)
(* each colour has exactly one king on the board.                          *)
C12_OneKingEach ==
    ~clone =>
        /\ Cardinality(kings_of(board, White)) = 1
        /\ Cardinality(kings_of(board, Black)) = 1

(* color is mated on position b: it is to move, its king is attacked and   *)
(* it has no move that leaves its king unattacked.                         *)
mated(b, color) == b.turn = color /\ in_check(b, color) /\ ~has_safe_move(b, color)

(* C19: after every move_piece call score equals the evaluation of the     *)
(* position: -CHECKMATE_VALUE when White is mated, +CHECKMATE_VALUE when   *)
(* Black is mated, STALEMATE_VALUE for Stalemate or Draw, otherwise the    *)
(* sum of material and piece-square values of White's pieces minus that of *)
(* Black's, minus CHECK_VALUE if White is in check, plus CHECK_VALUE if    *)
(* Black is in check.                                                      *)
C19_ScoreIsEvaluation ==
    ply > 0 =>
        board.score =
            IF mated(board, White) THEN 0 - CHECKMATE_VALUE
            ELSE IF mated(board, Black) THEN CHECKMATE_VALUE
            ELSE IF board.state \in {Stalemate, Draw} THEN STALEMATE_VALUE
            ELSE pieces_score(board)
                 - (IF in_check(board, White) THEN CHECK_VALUE ELSE 0)
                 + (IF in_check(board, Black) THEN CHECK_VALUE ELSE 0)

(* The value the move from -> to of the piece on from is to have: the      *)
(* largest i32 for a pawn move onto the last rank, otherwise the           *)
(* square-table value at to minus that at from, plus, for a capture, the   *)
(* material of the captured piece minus that of the moving piece.          *)
expected_move_value(b, from, to) ==
    LET piece == get(b, from)
        table == piece_table(piece, b.endgame)
        capture_pos == is_capture(b, from, to)
    IN  IF piece.name = "Pawn" /\ to[2] \in {0, 7} THEN I32_MAX
        ELSE (table[to[2] + 1][to[1] + 1] - table[from[2] + 1][from[1] + 1])
             + (IF capture_pos # NoLoc
                THEN Piece_get_value(get(b, capture_pos)) - Piece_get_value(piece)
                ELSE 0)

(* C20: for every move (from, to) of the legal-move list, move_value(from, *)
(* to) is maximal if the move is a pawn move that promotes, and otherwise  *)
(* is the square-table value at the destination minus that at the origin,  *)
(* plus, for a capture, the material of the captured piece minus the       *)
(* material of the moving piece.                                           *)
C20_MoveValue ==
    \A i \in 1..Len(legal_moves) :
        move_value(board, legal_moves[i][1], legal_moves[i][2])
            = expected_move_value(board, legal_moves[i][1], legal_moves[i][2])

(* minimax with the break on cut_off removed: every move of every node is  *)
(* searched, alpha and beta are still updated and passed down.             *)
RECURSIVE minimax_no_cut(_, _, _, _, _, _)
RECURSIVE no_cut_loop(_, _, _, _, _, _, _, _, _, _)
no_cut_loop(b, maximizing, d, moves, i, alpha, beta, best_score, best_move, rand) ==
    IF i > Len(moves) THEN [score |-> best_score, best_move |-> best_move]
    ELSE LET test_board == move_piece(b, moves[i][1], moves[i][2], FALSE).board
             score == minimax_no_cut(test_board, ~maximizing, d - 1, alpha, beta, rand).score
             better == IF maximizing THEN score > best_score ELSE score < best_score
             new_score == IF better THEN score ELSE best_score
             new_move == IF better THEN moves[i] ELSE best_move
             new_alpha == IF maximizing THEN max(alpha, new_score) ELSE alpha
             new_beta == IF maximizing THEN beta ELSE min(beta, new_score)
         IN  no_cut_loop(b, maximizing, d, moves, i + 1,
                         new_alpha, new_beta, new_score, new_move, rand)

minimax_no_cut(b, maximizing, d, alpha, beta, rand) ==
    IF d = 0 \/ is_over(b) THEN [score |-> b.score, best_move |-> NoMove]
    ELSE IF full_moves(b) = 0
         THEN [score |-> 0,
               best_move |-> color_ternary(b.agent_color, OPENINGS_WHITE, OPENINGS_BLACK)[rand]]
    ELSE no_cut_loop(b, maximizing, d, get_sorted_moves(b, b.turn), 1,
                     alpha, beta, IF maximizing THEN I32_MIN ELSE I32_MAX, NoMove, rand)

(* The depths at which the two searches are compared, and the number of    *)
(* pieces up to which a board is searched.                                 *)
CompareDepth == 3
SearchPieces == 4

(* C13: for every position and every depth up to CompareDepth, minimax     *)
(* called with the full window (alpha = i32::MIN, beta = i32::MAX) returns *)
(* the same score and the same best move as the same recursion without the *)
(* cut-off, whether the root maximizes or minimizes.                       *)
C13_PruningKeepsResult ==
    (~clone /\ Len(pieces(board)) <= SearchPieces) =>
        \A d \in 1..CompareDepth, maximizing \in BOOLEAN :
            \A rand \in IF full_moves(board) = 0 THEN OpeningChoices ELSE {1} :
                minimax(board, maximizing, d, I32_MIN, I32_MAX, rand)
                    = minimax_no_cut(board, maximizing, d, I32_MIN, I32_MAX, rand)

(* A search of depth 2 from the root board in which the cut-off fires: the *)
(* second move of the root leads to a node of two or more replies, and the *)
(* first reply already closes the window the first root move has left, so  *)
(* that the other replies are skipped.                                     *)
C13_Witness ==
    /\ ~clone
    /\ Len(pieces(board)) <= SearchPieces
    /\ ~is_over(board)
    /\ full_moves(board) # 0
    /\ LET moves == get_sorted_moves(board, board.turn)
       IN  /\ Len(moves) >= 2
           /\ \E maximizing \in BOOLEAN :
                 LET v1 == minimax(after(board, moves[1]), ~maximizing, 1,
                                   I32_MIN, I32_MAX, 1).score
                     child == after(board, moves[2])
                     answers == get_sorted_moves(child, child.turn)
                 IN  /\ ~is_over(child)
                     /\ Len(answers) >= 2
                     /\ IF maximizing
                        THEN after(child, answers[1]).score <= v1
                        ELSE after(child, answers[1]).score >= v1
                     /\ minimax(board, maximizing, 2, I32_MIN, I32_MAX, 1)
                            = minimax_no_cut(board, maximizing, 2, I32_MIN, I32_MAX, 1)

(* The other colour.                                                       *)
opponent(color) == color_ternary(color, Black, White)

(* The moves of the side to move on b that mate the opponent.              *)
mating_moves(b) ==
    {m \in Range(get_moves(b, b.turn)) : mated(after(b, m), opponent(b.turn))}

(* C14: on a board where the agent is to move and exactly one of its moves *)
(* checkmates, minimax_agent returns that move, and no other move of the   *)
(* agent, a checking one included, is taken for a mate by the search: the  *)
(* test board it is played on is not in state Checkmate.                   *)
C14_MateInOneIsPlayed ==
    (/\ ~clone
     /\ Len(pieces(board)) <= SearchPieces
     /\ board.turn = board.agent_color
     /\ ~is_over(board)
     /\ full_moves(board) # 0
     /\ Cardinality(mating_moves(board)) = 1)
    => /\ \A m \in Range(get_moves(board, board.turn)) \ mating_moves(board) :
              after(board, m).state[1] # "Checkmate"
       /\ minimax_agent(board) = mating_moves(board)

(* The agent variants of agent.rs.                                         *)
Agents == {"Minimax", "Random"}

(* C15: when the board submitted is already over (Checkmate, Stalemate or  *)
(* Draw, a draw in which pieces can still move included), Agent::get_move  *)
(* returns None for every agent variant.                                   *)
C15_NoMoveWhenOver ==
    (~clone /\ is_over(board)) =>
        \A a \in Agents : Agent_get_move(a, board) = {NoMove}

(* C16: once board.is_over() holds in the Game, a step changes the board    *)
(* only by a reset (the board of Game::new()) or a takeback (the board on  *)
(* top of board_history): no click and no agent result commits a move.     *)
C16_NoMoveAfterOver ==
    [][is_over(board) =>
          \/ board' = board
          \/ board' = from_fen(FEN)
          \/ /\ game.board_history # <<>>
             /\ board' = game.board_history[Len(game.board_history)][1]]_vars

(* The searches outstanding: the workers running and the results in the    *)
(* channel.                                                                *)
outstanding == Len(workers) + Len(game.agent_channel)

(* C17: at most one search is outstanding in the Game, from Game::new() on *)
(* and after every step, and none unless waiting_on_agent; a worker is     *)
(* started only when waiting_on_agent is false; and waiting_on_agent is    *)
(* cleared only by taking the one result out of the channel.               *)
C17_OneSearchOutstanding ==
    /\ outstanding = 0
    /\ [][/\ outstanding' <= 1
          /\ outstanding' = 1 => game'.waiting_on_agent
          /\ Len(workers') > Len(workers) => ~game.waiting_on_agent
          /\ (game.waiting_on_agent /\ ~game'.waiting_on_agent) =>
                /\ workers = <<>>
                /\ Len(game.agent_channel) = 1
                /\ game'.agent_channel = <<>>]_vars

(* A worker's result is waiting in the channel to be received.             *)
C17_Witness ==
    /\ game.waiting_on_agent
    /\ workers = <<>>
    /\ Len(game.agent_channel) = 1

(* ms holds the moves of gm, each as often as gm does.                     *)
is_permutation(ms, gm) ==
    /\ Len(ms) = Len(gm)
    /\ \A m \in Range(gm) : occurrences(ms, m) = occurrences(gm, m)

(* The values of the moves ms on b never rise (descending) or never fall   *)
(* (ascending) along the list.                                             *)
descending(b, ms) ==
    \A i \in 1..(Len(ms) - 1) :
        move_value(b, ms[i][1], ms[i][2]) >= move_value(b, ms[i + 1][1], ms[i + 1][2])

ascending(b, ms) ==
    \A i \in 1..(Len(ms) - 1) :
        move_value(b, ms[i][1], ms[i][2]) <= move_value(b, ms[i + 1][1], ms[i + 1][2])

(* The side the search maximizes for: minimax_agent starts the search for  *)
(* agent_color with maximizing = false and flips the flag with the turn.   *)
maximizing_side(b, color) == color # b.agent_color

(* C21 as stated: get_sorted_moves(color) is a permutation of the moves of *)
(* color, by move_value descending for the maximizing side and ascending   *)
(* for the minimizing side.                                                *)
C21_SortedForTheSide ==
    \A color \in {White, Black} :
        /\ is_permutation(get_sorted_moves(board, color), get_moves(board, color))
        /\ IF maximizing_side(board, color)
           THEN descending(board, get_sorted_moves(board, color))
           ELSE ascending(board, get_sorted_moves(board, color))

(* C21 amended: get_sorted_moves(color) is a permutation of the moves of   *)
(* color ordered by move_value descending, for the maximizing and for the  *)
(* minimizing side alike.                                                  *)
C21_SortedDescending ==
    \A color \in {White, Black} :
        /\ is_permutation(get_sorted_moves(board, color), get_moves(board, color))
        /\ descending(board, get_sorted_moves(board, color))

(* The minimizing side is to move, its moves differ in value and the sort  *)
(* changes their order.                                                    *)
C21_Witness ==
    /\ ~maximizing_side(board, board.turn)
    /\ get_sorted_moves(board, board.turn) # get_moves(board, board.turn)
    /\ ~ascending(board, get_sorted_moves(board, board.turn))

(* The boards minimax_agent is compared on: small game boards on which the *)
(* agent is to move and the search walks the tree.                         *)
searched_by_agent(b) ==
    /\ Len(pieces(b)) <= SearchPieces
    /\ b.turn = b.agent_color
    /\ ~is_over(b)
    /\ full_moves(b) # 0

(* The best move of the pass of depth d of an iterative deepening.         *)
pass_move(b, d) == minimax(b, FALSE, d, I32_MIN, I32_MAX, 1).best_move

empty_squares(b) == {l \in Locs : get(b, l).name = "None"}

moves_on_turn(b, color) == get_moves([b EXCEPT !.turn = color], color)

(* C25: after every move_piece call, with check_stale true or false, state *)
(* == Checkmate(c) implies that c has no move in the position reached.     *)
C25_CheckmateMeansNoMove ==
    board.state[1] = "Checkmate" => moves_on_turn(board, board.state[2]) = <<>>

(* The king of color stands on b on a square the other colour attacks.     *)
king_attacked(b, color) ==
    /\ color_ternary(color, get_kings(b)[1], get_kings(b)[2]) # NoLoc
    /\ color_ternary(color, get_kings(b)[1], get_kings(b)[2])
           \in get_attacks(b, opponent(color))

(* C26: after every move_piece call, with check_stale true or false, state *)
(* is Check(c) or Checkmate(c) only if the king of c is attacked in the    *)
(* position reached: no Check is left over from the position before.       *)
C26_CheckOnlyWhenAttacked ==
    board.state[1] \in {"Check", "Checkmate"} => king_attacked(board, board.state[2])

(* C27: no board reached from the starting position by moves taken from    *)
(* the move lists has check_white and check_black both true, so that       *)
(* detect_state never takes its catch-all branch.                          *)
C27_NeverBothInCheck ==
    ~(board.check_white /\ board.check_black)

(* One of the three draw conditions of detect_state holds on b.            *)
draw_due(b) ==
    \/ b.half_moves - b.fifty_rule >= FiftyLimit
    \/ occurrences(b.prev_states, b.hash) >= 3
    \/ Len(pieces(b)) = 2

(* C28: detect_state decides in the order fifty-move rule, threefold       *)
(* repetition, two pieces left, check or checkmate, stalemate or normal:   *)
(* a board on which a draw condition holds is Draw, also when the move     *)
(* gives check or mate, and a board with no draw condition and one king in *)
(* check is Check or Checkmate of that colour, also when the side to move  *)
(* has no move.                                                            *)
C28_DrawFirstThenCheck ==
    /\ draw_due(board) => board.state = Draw
    /\ (~draw_due(board) /\ board.check_white /\ ~board.check_black)
          => board.state \in {Check(White), Checkmate(White)}
    /\ (~draw_due(board) /\ ~board.check_white /\ board.check_black)
          => board.state \in {Check(Black), Checkmate(Black)}

(* A mating move has completed the fifty-move count: the white king is     *)
(* attacked, White has no move, more than two pieces stand on the board,   *)
(* and the state is Draw.                                                  *)
C28_Witness ==
    /\ board.half_moves - board.fifty_rule >= FiftyLimit
    /\ Len(pieces(board)) > 2
    /\ board.check_white /\ ~board.check_black
    /\ king_attacked(board, White)
    /\ board.moves_white = <<>>
    /\ last_move # NoMove
    /\ board.state = Draw

(* The hashes of the positions after the plies k..n of the scripted line   *)
(* l, played from the board b that stands after ply k - 1.                 *)
RECURSIVE line_hashes(_, _, _, _)
line_hashes(b, l, k, n) ==
    IF k > n THEN <<>>
    ELSE LET nb == move_piece(b, Lines[l][k][1], Lines[l][k][2], TRUE).board
         IN  <<nb.hash>> \o line_hashes(nb, l, k + 1, n)

(* The hashes of the last PrevStatesCap positions of the game played along *)
(* the scripted line.                                                      *)
recent_hashes ==
    SubSeq(line_hashes(from_fen(FEN), line, 1, ply), ply - PrevStatesCap + 1, ply)

(* C29: prev_states never holds more than 24 hashes, and once it is full   *)
(* every new hash replaces the oldest one: a full buffer holds the hashes  *)
(* of the 24 most recent positions of the game, each as many times as the  *)
(* position occurred among them.                                           *)
C29_HoldsTheMostRecent ==
    /\ Len(board.prev_states) <= PrevStatesCap
    /\ (~clone /\ line > 0 /\ Len(board.prev_states) = PrevStatesCap)
          => \A hs \in {recent_hashes} : \A k \in 1..PrevStatesCap :
                occurrences(board.prev_states, hs[k]) = occurrences(hs, hs[k])

(* C30: in every board returned by from_fen or left by move_piece, each    *)
(* piece stored on a square of the grid has that square as its pos, the    *)
(* rook relocated by castling and a promoted pawn included.                *)
C30_PosIsTheSquare ==
    \A l \in Locs : board.raw[l].name # "None" => board.raw[l].pos = l

(* A king has castled and the piece taken from the corner stands beside    *)
(* it, or a white pawn has captured onto the last rank and stands there as *)
(* a queen.                                                                *)
C30_Witness ==
    /\ last_move # NoMove
    /\ \/ /\ get(board, last_move[2]).name = "King"
          /\ abs_diff(last_move[1][1], last_move[2][1]) = 2
          /\ \E x \in {3, 5} : board.raw[loc(x, last_move[2][2])].name # "None"
       \/ /\ last_move[1][2] = 1
          /\ last_move[2][2] = 0
          /\ abs_diff(last_move[1][1], last_move[2][1]) = 1
          /\ get(board, last_move[2]).name = "Queen"
          /\ get(board, last_move[2]).color = White

(* C31: in every board returned by from_fen or left by move_piece the      *)
(* stored hash is hash() of the present grid, castling rights and          *)
(* en-passant value.                                                       *)
C31_StoredHashIsHash ==
    board.hash = hash(board)

(* The on-board squares one file to the left or right of the pawn and one  *)
(* rank forward.                                                           *)
forward_diagonals(piece) ==
    {l \in Locs : /\ l[2] = piece.pos[2] + color_ternary(piece.color, -1, 1)
                  /\ l[1] \in {piece.pos[1] - 1, piece.pos[1] + 1}}

(* C32: for every pawn, pawn_attacks returns only the on-board squares one *)
(* file to the left or right and one rank forward, never the square        *)
(* straight ahead, also for a pawn on file 0 or file 7.                    *)
C32_PawnAttacksDiagonalOnly ==
    \A l \in Locs : board.raw[l].name = "Pawn"
        => Range(pawn_attacks(board.raw[l])) = forward_diagonals(board.raw[l])

(* The shifts (x_diff, y_diff) the pieces apply.                           *)
Offsets == (-MaxOffset..MaxOffset) \X (-MaxOffset..MaxOffset)

(* The square a shift by d from l leads to, on the board or not.           *)
destination(l, d) == <<l[1] + d[1], l[2] + d[2]>>

(* The squares the pieces of b stand on: the Locs the board shifts.        *)
occupied(b) == {l \in Locs : b.raw[l].name # "None"}

(* C33: for the Loc of every piece on the board and every offset,          *)
(* copy_move_i32 reports out-of-bounds exactly when the true destination   *)
(* lies outside the board, and whenever it reports false the Loc returned  *)
(* is the true destination and is on the board.                            *)
C33_OutFlagIsExact ==
    \A l \in occupied(board), d \in Offsets :
        /\ copy_move_i32(l, d[1], d[2])[2] <=> destination(l, d) \notin Locs
        /\ ~copy_move_i32(l, d[1], d[2])[2]
              => /\ copy_move_i32(l, d[1], d[2])[1] = destination(l, d)
                 /\ copy_move_i32(l, d[1], d[2])[1] \in Locs

(* C33 amended: for the Loc of every piece on the board and every offset,  *)
(* copy_move_i32 reports true exactly when a coordinate of                 *)
(* the true destination is negative; whenever it reports false the Loc     *)
(* returned is the true destination, which is on the board exactly when    *)
(* valid_pos accepts it.                                                   *)
C33_OutFlagIsUnderflow ==
    \A l \in occupied(board), d \in Offsets :
        /\ copy_move_i32(l, d[1], d[2])[2]
              <=> (destination(l, d)[1] < 0 \/ destination(l, d)[2] < 0)
        /\ ~copy_move_i32(l, d[1], d[2])[2]
              => copy_move_i32(l, d[1], d[2])[1] = destination(l, d)
        /\ (~copy_move_i32(l, d[1], d[2])[2] /\ valid_pos(copy_move_i32(l, d[1], d[2])[1]))
              <=> destination(l, d) \in Locs

(* A knight has moved to a square from which one of its steps leaves the   *)
(* board on the high side and another on the low side: the first is not    *)
(* flagged and fails valid_pos, the second is flagged.                     *)
C33_Witness ==
    /\ last_move # NoMove
    /\ get(board, last_move[2]).name = "Knight"
    /\ \E d \in Offsets :
          /\ ~copy_move_i32(last_move[2], d[1], d[2])[2]
          /\ ~valid_pos(copy_move_i32(last_move[2], d[1], d[2])[1])
    /\ \E d \in Offsets : copy_move_i32(last_move[2], d[1], d[2])[2]

(* C34: each move_piece call removes at most one piece from the board:     *)
(* the number of pieces goes down by exactly 1 when the call returns true  *)
(* and stays the same when it returns false.                               *)
C34_AtMostOnePieceRemoved ==
    [][Len(pieces(board')) = Len(pieces(board)) - (IF capture' THEN 1 ELSE 0)]_vars

(* The piece of the given name and color stands on l.                      *)
stands(b, l, name, color) == b.raw[l].name = name /\ b.raw[l].color = color

(* C35: in every state reached from the starting position a castling right *)
(* that is true has the king of the colour on file 4 of its back rank and  *)
(* a rook of the colour on the corner of that side, and move_actions never *)
(* takes its panic branch.                                                 *)
C35_CastlingRightHasKingAndRook ==
    /\ board.castle_white[1] => stands(board, loc(4, 7), "King", White)
                                /\ stands(board, loc(0, 7), "Rook", White)
    /\ board.castle_white[2] => stands(board, loc(4, 7), "King", White)
                                /\ stands(board, loc(7, 7), "Rook", White)
    /\ board.castle_black[1] => stands(board, loc(4, 0), "King", Black)
                                /\ stands(board, loc(0, 0), "Rook", Black)
    /\ board.castle_black[2] => stands(board, loc(4, 0), "King", Black)
                                /\ stands(board, loc(7, 0), "Rook", Black)
    /\ board.state # <<"panic">>

(* The squares of b that hold a piece of the given name and colour.        *)
squares_of(b, name, color) == {l \in Locs : stands(b, l, name, color)}

(* No pawn of b stands on row 0 or row 7.                                  *)
far_ranks_free(b) == \A l \in Locs : l[2] \in {0, 7} => b.raw[l].name # "Pawn"

(* C36: after any sequence of move_piece calls from the starting position  *)
(* no pawn stands on row 0 or row 7: a pawn that has reached the far rank  *)
(* is a queen of its colour on that square when move_piece returns.        *)
C36_NoPawnOnFarRank ==
    /\ far_ranks_free(board)
    /\ [][/\ far_ranks_free(board')
          /\ (/\ board.raw[last_move'[1]].name = "Pawn"
              /\ last_move'[2][2] \in {0, 7})
                => stands(board', last_move'[2], "Queen",
                          board.raw[last_move'[1]].color)]_vars

(* The white pawn of the line Promotion has gone from row 1 to row 0:      *)
(* White has two queens and seven pawns.                                   *)
C36_Witness ==
    /\ last_move # NoMove
    /\ last_move[1][2] = 1 /\ last_move[2][2] = 0
    /\ Cardinality(squares_of(board, "Queen", White)) = 2
    /\ Cardinality(squares_of(board, "Pawn", White)) = 7
    /\ board.raw[last_move[1]].name = "None"

(* C37: a move received from the search worker is applied to the board     *)
(* that was submitted to that search: from the start of a search until its *)
(* result is taken from the channel the board of the Game does not change. *)
C37_BoardKeptWhileWaiting ==
    [][(game.waiting_on_agent /\ game'.waiting_on_agent) => board' = board]_vars

(* The boards for which Game::update asks the agent: the side to move is   *)
(* not the player's.                                                       *)
agent_is_asked(b) == b.turn # b.player_color

(* The boards on which the answer of minimax_agent is computed here: those *)
(* it answers without a search, and those of at most SearchPieces pieces.  *)
minimax_is_followed(b) ==
    is_over(b) \/ full_moves(b) = 0 \/ Len(pieces(b)) <= SearchPieces

(* C38: every Some((from, to)) that Agent::get_move returns for a board is *)
(* in the move list of the side to move on that board, for the Random      *)
(* agent and for the Minimax agent, its opening of the first full move     *)
(* included.                                                               *)
C38_AgentMoveIsInTheList ==
    (~clone /\ agent_is_asked(board)) =>
        /\ \A m \in Agent_get_move("Random", board) :
              m # NoMove => m \in Range(get_moves(board, board.turn))
        /\ minimax_is_followed(board) =>
              \A m \in Agent_get_move("Minimax", board) :
                  m # NoMove => m \in Range(get_moves(board, board.turn))

(* The piece p seen from the other side: the other colour, on the square   *)
(* of the same file and the mirrored rank.                                 *)
mirrored_piece(p) ==
    IF p.name = "None" THEN p
    ELSE Piece(p.name, opponent(p.color), loc(p.pos[1], 7 - p.pos[2]))

(* The position of b mirrored vertically with all colours swapped, a check *)
(* or mate in state passing to the other colour with it.                   *)
mirrored(b) ==
    [b EXCEPT !.raw = [l \in Locs |-> mirrored_piece(b.raw[loc(l[1], 7 - l[2])])],
              !.state = IF Len(b.state) = 2
                        THEN <<b.state[1], opponent(b.state[2])>> ELSE b.state]

(* The kinds of piece that stand on b.                                     *)
kinds(b) == {b.raw[l].name : l \in occupied(b)}

(* C39: the evaluation is antisymmetric under colour swap with vertical    *)
(* mirroring: for every kind of piece on the board, both phases and every  *)
(* square the Black table value at (x, y) is the White table value at      *)
(* (x, 7 - y); the mirrored position of a board that is not over has the   *)
(* negated get_score; and the starting position scores 0.                  *)
C39_EvaluationIsAntisymmetric ==
    /\ \A name \in kinds(board), endgame \in BOOLEAN, l \in Locs :
          piece_table(Piece(name, Black, l), endgame)[l[2] + 1][l[1] + 1]
              = piece_table(Piece(name, White, l), endgame)[7 - l[2] + 1][l[1] + 1]
    /\ ~is_over(board) => get_score(mirrored(board)) = 0 - get_score(board)
    /\ board.half_moves = 0 => (get_score(board) = 0 /\ board.score = 0)

(* A board that is not over, with a king in check and material and squares *)
(* that do not balance: its score is not 0 and the mirrored position has   *)
(* the score of the opposite sign.                                         *)
C39_Witness ==
    /\ board.state[1] = "Check"
    /\ pieces_score(board) # 0
    /\ get_score(board) # 0
    /\ get_score(mirrored(board)) = 0 - get_score(board)

(* The halfmove clock h and the fullmove number n written in a FEN string. *)
halfmove_clock(fen) == parse_u32(split_whitespace(fen)[5])

fullmove_number(fen) == parse_u32(split_whitespace(fen)[6])

(* C40: for every board built by from_fen from a string with halfmove      *)
(* clock h and fullmove number n, and every board reached from it,         *)
(* fifty_rule <= half_moves; on the board as built the count half_moves -  *)
(* fifty_rule is h, and as_fen writes h and n back.                        *)
C40_CountersFollowTheFen ==
    /\ board.fifty_rule <= board.half_moves
    /\ \A i \in 1..Len(Fens) :
          (ply = 0 /\ board = from_fen(Fens[i])) =>
              /\ board.half_moves - board.fifty_rule = halfmove_clock(Fens[i])
              /\ halfmove_clock(as_fen(board)) = halfmove_clock(Fens[i])
              /\ fullmove_number(as_fen(board)) = fullmove_number(Fens[i])

====
